---------------------------- MODULE Spec2Model ----------------------------
(***************************************************************************)
(* SiteSim: a stochastic simulator of rule-free binding and unbinding of   *)
(* agents.  This module models the reactive kernel: the sum-tree heap      *)
(* (kaheap.py), the mixture with its stratified activities (kamix.py),     *)
(* the reactor (kareact.py) and the CTMC selector/executor (kasim.py).     *)
(*                                                                         *)
(* Arithmetic: the program uses floats for rates and activities; the model *)
(* uses integer rate constants, so that sums and differences are exact.    *)
(* A uniform variate rv in [0, total) is represented by the integer k that *)
(* stands for the interval [k, k+1): all thresholds it is compared with    *)
(* are integers, so every rv of that interval takes the same branches.     *)
(***************************************************************************)
EXTENDS Integers, Sequences, FiniteSets, TLC

VARIABLES hp, hop, sys, mol, mixture, heap, sim, pc, log

hvars == <<hp, hop>>

mvars == <<sys, mol, mixture, heap, sim, pc, log>>

vars == <<hp, hop, sys, mol, mixture, heap, sim, pc, log>>

(***************************************************************************)
(* Bounds of the heap specification.                                       *)
(***************************************************************************)
MaxInit == 4
MaxEntries == 5
MaxW == 2

(***************************************************************************)
(* Generic helpers.  Python lists are modelled as functions on 0..n-1.     *)
(***************************************************************************)
RECURSIVE Pow2(_)
Pow2(n) == IF n <= 0 THEN 1 ELSE 2 * Pow2(n - 1)

RECURSIVE IntLog2(_)
IntLog2(n) == IF n <= 1 THEN 0 ELSE 1 + IntLog2(n \div 2)

Max(a, b) == IF a >= b THEN a ELSE b

ListLen(l) == Cardinality(DOMAIN l)

EmptyList == [i \in {} |-> 0]

ListOfSeq(s) == [i \in 0..(Len(s) - 1) |-> s[i + 1]]

ListAppend(l, x) == [i \in 0..ListLen(l) |-> IF i < ListLen(l) THEN l[i] ELSE x]

ListPop(l) == [i \in 0..(ListLen(l) - 2) |-> l[i]]

RECURSIVE ListSum(_, _)
ListSum(l, n) == IF n <= 0 THEN 0 ELSE l[n - 1] + ListSum(l, n - 1)

(***************************************************************************)
(* kaheap.Heap                                                             *)
(***************************************************************************)
RECURSIVE InitLoop(_, _)
InitLoop(tree, i) ==
    IF i < 0 THEN tree
    ELSE InitLoop([tree EXCEPT ![i] = tree[2 * i + 1] + tree[2 * i + 2]], i - 1)

\* initialize_tree: from the parent of the last data item down to the root
initialize_tree(h) ==
    [h EXCEPT !.tree = InitLoop(h.tree, (h.last_data_item - 1) \div 2)]

RECURSIVE UpdateLoop(_, _)
UpdateLoop(tree, i) ==
    IF i > 0
    THEN LET p == (i - 1) \div 2
         IN  UpdateLoop([tree EXCEPT ![p] = tree[2 * p + 1] + tree[2 * p + 2]], p)
    ELSE tree

update_from_leaf(h, i) == [h EXCEPT !.tree = UpdateLoop(h.tree, i)]

\* [0] * n_internal_nodes + data + [0] * available
TreeLayout(n_internal, data, available) ==
    [i \in 0..(n_internal + ListLen(data) + available - 1) |->
        IF i < n_internal THEN 0
        ELSE IF i < n_internal + ListLen(data) THEN data[i - n_internal]
        ELSE 0]

\* Heap.__init__ followed by make_tree
make_tree(data) ==
    LET n  == ListLen(data)
        ht == IF n = 0 THEN 0 ELSE IntLog2(n) + 1
        nl == IF ht = 0 THEN 0 ELSE Pow2(ht)
        ni == Max(nl - 1, 0)
        av == nl - n
    IN  initialize_tree(
          [n_entries        |-> n,
           height           |-> ht,
           n_leaves         |-> nl,
           n_internal_nodes |-> ni,
           available        |-> av,
           tree             |-> TreeLayout(ni, data, av),
           first_data_item  |-> ni,
           last_data_item   |-> ni + n - 1])

\* add_layer with a slice that stops one short of the last data item
add_layer_short_slice(h) ==
    LET ht   == h.height + 1
        nl   == Pow2(ht)
        ni   == nl - 1
        av   == nl - h.n_entries
        data == [i \in 0..(h.last_data_item - h.first_data_item - 1) |->
                    h.tree[h.first_data_item + i]]
    IN  initialize_tree(
          [n_entries        |-> h.n_entries,
           height           |-> ht,
           n_leaves         |-> nl,
           n_internal_nodes |-> ni,
           available        |-> av,
           tree             |-> TreeLayout(ni, data, av + 1),
           first_data_item  |-> ni,
           last_data_item   |-> ni + h.n_entries - 1])

add_layer(h) ==
    LET ht   == h.height + 1
        nl   == Pow2(ht)
        ni   == nl - 1
        av   == nl - h.n_entries
        \* self.tree[self.first_data_item:self.last_data_item + 1]
        data == [i \in 0..(h.last_data_item - h.first_data_item) |->
                    h.tree[h.first_data_item + i]]
    IN  initialize_tree(
          [n_entries        |-> h.n_entries,
           height           |-> ht,
           n_leaves         |-> nl,
           n_internal_nodes |-> ni,
           available        |-> av,
           tree             |-> TreeLayout(ni, data, av),
           first_data_item  |-> ni,
           last_data_item   |-> ni + h.n_entries - 1])

insert(h, data_item) ==
    LET g    == IF h.n_entries = h.n_leaves THEN add_layer(h) ELSE h
        n    == g.n_entries + 1
        last == g.n_internal_nodes + n - 1
        g2   == [g EXCEPT !.n_entries = n,
                          !.last_data_item = last,
                          !.available = g.n_leaves - n,
                          !.tree = [g.tree EXCEPT ![last] = data_item]]
    IN  update_from_leaf(g2, last)

\* delete that propagates the sums on the path of the overwritten leaf only
delete_one_path(h, index) ==
    LET i  == index + h.first_data_item
        j  == h.last_data_item
        t1 == [h.tree EXCEPT ![i] = h.tree[j]]
        t2 == [t1 EXCEPT ![j] = 0]
        g  == [h EXCEPT !.tree = t2,
                        !.n_entries = h.n_entries - 1,
                        !.last_data_item = h.last_data_item - 1]
    IN  update_from_leaf(g, i)

delete(h, index) ==
    LET i  == index + h.first_data_item
        j  == h.last_data_item
        t1 == [h.tree EXCEPT ![i] = h.tree[j]]
        t2 == [t1 EXCEPT ![j] = 0]
        g  == [h EXCEPT !.tree = t2,
                        !.n_entries = h.n_entries - 1,
                        !.last_data_item = h.last_data_item - 1]
    IN  update_from_leaf(update_from_leaf(g, i), j)

modify(h, data_item, index) ==
    LET i == index + h.first_data_item
    IN  update_from_leaf([h EXCEPT !.tree = [h.tree EXCEPT ![i] = data_item]], i)

RECURSIVE DrawLoop(_, _, _, _)
DrawLoop(tree, i, rv, stop) ==
    IF i <= stop
    THEN LET left    == 2 * i + 1
             right   == 2 * i + 2
             l_value == tree[left]
         IN  IF rv < l_value
             THEN DrawLoop(tree, left, rv, stop)
             ELSE DrawLoop(tree, right, rv - l_value, stop)
    ELSE i

RECURSIVE DrawLoopLeq(_, _, _, _)
DrawLoopLeq(tree, i, rv, stop) ==
    IF i <= stop
    THEN LET left    == 2 * i + 1
             right   == 2 * i + 2
             l_value == tree[left]
         IN  IF rv <= l_value
             THEN DrawLoopLeq(tree, left, rv, stop)
             ELSE DrawLoopLeq(tree, right, rv - l_value, stop)
    ELSE i

\* draw_node that goes left on rv <= l_value
draw_node_leq(h, rv) ==
    DrawLoopLeq(h.tree, 0, rv, (h.last_data_item - 1) \div 2) - h.first_data_item

draw_node(h, rv) ==
    DrawLoop(h.tree, 0, rv, (h.last_data_item - 1) \div 2) - h.first_data_item

(***************************************************************************)
(* Observations of a heap.                                                 *)
(***************************************************************************)
Root(h) == IF ListLen(h.tree) = 0 THEN 0 ELSE h.tree[0]

\* the occupied leaf block, as a list
Leaves(h) == [k \in 0..(h.n_entries - 1) |-> h.tree[h.first_data_item + k]]

\* sum of the leaves 0..k-1
LeafPrefix(h, k) == ListSum(Leaves(h), k)

(***************************************************************************)
(* Specification of a single heap under insert, delete, modify, draw.      *)
(***************************************************************************)
Weights == 0..MaxW

InitData == UNION {[0..(n - 1) -> Weights] : n \in 0..MaxInit}

NoOp == [name |-> "init", w |-> 0, i |-> 0, pre |-> make_tree(EmptyList), out |-> 0]

HeapInit ==
    /\ \E data \in InitData : hp = make_tree(data)
    /\ hop = NoOp
    /\ sys = [canonicalize |-> TRUE]
    /\ mol = EmptyList
    /\ mixture = [complexes |-> EmptyList]
    /\ heap = EmptyList
    /\ sim = [current_reaction |-> "None"]
    /\ pc = "heap"
    /\ log = <<>>

HeapInsert ==
    /\ hp.n_entries < MaxEntries
    /\ \E w \in Weights :
         /\ hp' = insert(hp, w)
         /\ hop' = [name |-> "insert", w |-> w, i |-> 0, pre |-> hp, out |-> 0]
    /\ UNCHANGED mvars

HeapDelete ==
    /\ \E i \in 0..(hp.n_entries - 1) :
         /\ hp' = delete(hp, i)
         /\ hop' = [name |-> "delete", w |-> 0, i |-> i, pre |-> hp, out |-> 0]
    /\ UNCHANGED mvars

HeapModify ==
    /\ \E i \in 0..(hp.n_entries - 1), w \in Weights :
         /\ hp' = modify(hp, w, i)
         /\ hop' = [name |-> "modify", w |-> w, i |-> i, pre |-> hp, out |-> 0]
    /\ UNCHANGED mvars

HeapDraw ==
    /\ \E rv \in 0..(Root(hp) - 1) :
         /\ hp' = hp
         /\ hop' = [name |-> "draw", w |-> rv, i |-> 0, pre |-> hp,
                    out |-> draw_node(hp, rv)]
    /\ UNCHANGED mvars

HeapNext == HeapInsert \/ HeapDelete \/ HeapModify \/ HeapDraw

SpecHeap == HeapInit /\ [][HeapNext]_vars


(***************************************************************************)
(* The signature  A(l[r.A], r[l.A]), P(d[d.P]):  agents of type A form     *)
(* chains and rings through the asymmetric bond type (A.l, A.r), agents of *)
(* type P dimerize through the symmetric bond type (P.d, P.d).             *)
(* kasig.get_site_and_bond_types lists site and bond types in declaration  *)
(* order.                                                                  *)
(***************************************************************************)
site_types == <<"A.l", "A.r", "P.d">>

bond_types == << <<"A.l", "A.r">>, <<"P.d", "P.d">> >>

SiteTypeSet == {site_types[i] : i \in 1..Len(site_types)}

BondTypeSet == {bond_types[i] : i \in 1..Len(bond_types)}

AgentTypes == {"A", "P"}

(***************************************************************************)
(* Bound of the mixture specification: the largest number of agents in the *)
(* mixture.                                                                *)
(***************************************************************************)
MaxAgents == 4

\* the largest count of a species in an initial mixture that is given species
\* by species
MaxCount == 2

(***************************************************************************)
(* Stochastic rate constants (kaparam.apply_parameters), as integers.      *)
(* rc_bond_formation_inter is even so that the factor 0.5 is exact.        *)
(***************************************************************************)
rc_bond_formation_inter == 2
rc_bond_formation_intra == 3
rc_off_A == 1
rc_off_P == 2
rate_inflow_A == 1
rate_outflow_A == 3

rc_bond_dissociation(bt) == IF bt = <<"A.l", "A.r">> THEN rc_off_A ELSE rc_off_P

(***************************************************************************)
(* Python dictionaries are functions; a missing key is a key outside the   *)
(* domain.                                                                 *)
(***************************************************************************)
EmptyDict == [k \in {} |-> 0]

DictSet(d, k, v) == [x \in (DOMAIN d) \cup {k} |-> IF x = k THEN v ELSE d[x]]

DictDel(d, k) == [x \in (DOMAIN d) \ {k} |-> d[x]]

(***************************************************************************)
(* Molecular species.  With this signature an isomorphism class is a chain *)
(* of n agents A (free l at one end, free r at the other), a ring of       *)
(* n >= 2 agents A, a monomer P or a dimer P-P; the canonical form is the  *)
(* pair (kind, n).  The inventories are those kamol.KappaMolecule keeps.   *)
(***************************************************************************)
Chain(n) == [kind |-> "chain", n |-> n]
Ring(n) == [kind |-> "ring", n |-> n]
PMol(n) == [kind |-> "P", n |-> n]

size(c) == c.n

agent_type(c) == IF c.kind = "P" THEN "P" ELSE "A"

free_site(c, st) ==
    IF c.kind = "chain" /\ st \in {"A.l", "A.r"} THEN 1
    ELSE IF c.kind = "P" /\ c.n = 1 /\ st = "P.d" THEN 1
    ELSE 0

bond_type(c, bt) ==
    IF bt = <<"A.l", "A.r">>
    THEN (IF c.kind = "chain" THEN c.n - 1 ELSE IF c.kind = "ring" THEN c.n ELSE 0)
    ELSE (IF c.kind = "P" /\ c.n = 2 THEN 1 ELSE 0)

\* number of agents carrying a free site of each of the two (different) types
agent_self_binding(c, bt) ==
    IF bt = <<"A.l", "A.r">> /\ c.kind = "chain" /\ c.n = 1 THEN 1 ELSE 0

\* KappaMolecule.internal_reactivity
binding(c, bt) ==
    IF bt[1] = bt[2]
    THEN ((free_site(c, bt[1]) * (free_site(c, bt[1]) - 1)) \div 2) * rc_bond_formation_intra
    ELSE (free_site(c, bt[1]) * free_site(c, bt[2]) - agent_self_binding(c, bt))
             * rc_bond_formation_intra

unbinding(c, bt) == bond_type(c, bt) * rc_bond_dissociation(bt)

\* a * factor * rc_bond_formation_inter, factor = 0.5 for a symmetric bond type
InterActivity(a, bt) ==
    IF bt[1] = bt[2]
    THEN (a * rc_bond_formation_inter) \div 2
    ELSE a * rc_bond_formation_inter

RECURSIVE SumOver(_, _)
SumOver(f, S) ==
    IF S = {} THEN 0
    ELSE LET x == CHOOSE y \in S : TRUE IN f[x] + SumOver(f, S \ {x})


(***************************************************************************)
(* The world an event works on: the molecule objects (mol: identity ->     *)
(* canonical form and count), the mixture, the heaps of the simulator, the *)
(* log of the calls made in the current event, and the exception raised    *)
(* (err), if any.  Once an exception is raised the remaining calls of the  *)
(* event do not run: the exception propagates out of main_loop.            *)
(***************************************************************************)
Raise(w, e) == [w EXCEPT !.err = e]

Then(w, F(_)) == IF w.err # "" THEN w ELSE F(w)

LogCall(w, op, m) ==
    [w EXCEPT !.log = Append(@, [op |-> op, m |-> m, count |-> w.mol[m].count])]

Families == {"bt+", "bt-", "st"}

\* the sites that occur in a bond type (CTMC.initialize_heaps)
HeapSites == UNION {{bt[1], bt[2]} : bt \in BondTypeSet}

HeapKeys(t) == IF t = "st" THEN HeapSites ELSE BondTypeSet

\* the data item of a molecule object in the heap k of family t
data_item(o, t, k) ==
    IF t = "st" THEN free_site(o.canon, k) * o.count
    ELSE IF t = "bt+" THEN binding(o.canon, k) * o.count
    ELSE unbinding(o.canon, k) * o.count

\* CTMC.initialize_heaps
initialize_heaps(mols, complexes) ==
    [t \in Families |->
        [k \in HeapKeys(t) |->
            make_tree([i \in DOMAIN complexes |-> data_item(mols[complexes[i]], t, k)])]]

\* the smallest identity not carried by a live object
FreshId(mols) == CHOOSE i \in 1..(Cardinality(DOMAIN mols) + 1) :
                    /\ i \notin DOMAIN mols
                    /\ \A j \in 1..(i - 1) : j \in DOMAIN mols

(***************************************************************************)
(* kamix.Mixture                                                           *)
(***************************************************************************)
\* remove_molecular_species that does not re-index the species moved into the gap
remove_no_reindex(w, m) ==
    LET mx        == w.mixture
        old_index == mx.index[m]
        n         == ListLen(mx.complexes)
        m_last    == mx.complexes[n - 1]
        c         == w.mol[m].canon
        canon1    == IF sys.canonicalize THEN DictDel(mx.canonical, c) ELSE mx.canonical
        atom1     == IF sys.canonicalize /\ size(c) = 1
                     THEN DictSet(mx.atom_canonical, agent_type(c), 0)
                     ELSE mx.atom_canonical
    IN  [w EXCEPT
          !.mixture = [mx EXCEPT
               !.complexes = ListPop([mx.complexes EXCEPT ![old_index] = m_last]),
               !.index = DictDel(mx.index, m),
               !.canonical = canon1,
               !.atom_canonical = atom1,
               !.number_of_species = mx.number_of_species - 1],
          !.heap = [t \in Families |-> [k \in HeapKeys(t) |->
                        delete(w.heap[t][k], old_index)]]]

remove_molecular_species(w, m) ==
    LET mx == w.mixture
    IN  IF m \notin DOMAIN mx.index THEN Raise(w, "KeyError: index[m]")
        ELSE IF sys.canonicalize /\ w.mol[m].canon \notin DOMAIN mx.canonical
        THEN Raise(w, "KeyError: canonical[m.canonical]")
        ELSE
        LET old_index == mx.index[m]
            n         == ListLen(mx.complexes)
            m_last    == mx.complexes[n - 1]
            c         == w.mol[m].canon
            canon1    == IF sys.canonicalize THEN DictDel(mx.canonical, c) ELSE mx.canonical
            \* atom_canonical[atom_type] = None; None is modelled by 0
            atom1     == IF sys.canonicalize /\ size(c) = 1
                         THEN DictSet(mx.atom_canonical, agent_type(c), 0)
                         ELSE mx.atom_canonical
        IN  [w EXCEPT
              !.mixture = [mx EXCEPT
                   !.complexes = ListPop([mx.complexes EXCEPT ![old_index] = m_last]),
                   !.index = DictDel([mx.index EXCEPT ![m_last] = old_index], m),
                   !.canonical = canon1,
                   !.atom_canonical = atom1,
                   !.number_of_species = mx.number_of_species - 1],
              !.heap = [t \in Families |-> [k \in HeapKeys(t) |->
                            delete(w.heap[t][k], old_index)]]]

add_molecular_species(w, m) ==
    LET mx     == w.mixture
        c      == w.mol[m].canon
        canon1 == IF sys.canonicalize THEN DictSet(mx.canonical, c, m) ELSE mx.canonical
        atom1  == IF sys.canonicalize /\ size(c) = 1
                  THEN DictSet(mx.atom_canonical, agent_type(c), m)
                  ELSE mx.atom_canonical
    IN  [w EXCEPT
          !.mixture = [mx EXCEPT
               !.index = DictSet(mx.index, m, mx.number_of_species),
               !.complexes = ListAppend(mx.complexes, m),
               !.canonical = canon1,
               !.atom_canonical = atom1,
               !.number_of_species = mx.number_of_species + 1],
          !.heap = [t \in Families |-> [k \in HeapKeys(t) |->
                        insert(w.heap[t][k], data_item(w.mol[m], t, k))]]]

\* change_count that leaves the heaps alone when the species stays
change_count_no_heap(w, m, num, remove) ==
    LET w1 == [LogCall(w, IF num < 0 THEN "change_count(-1)" ELSE "change_count(+1)", m)
                  EXCEPT !.mol[m].count = @ + num]
    IN  IF w1.mol[m].count = 0 /\ remove
        THEN remove_molecular_species(w1, m)
        ELSE w1

change_count(w, m, num, remove) ==
    LET w1 == [LogCall(w, IF num < 0 THEN "change_count(-1)" ELSE "change_count(+1)", m)
                  EXCEPT !.mol[m].count = @ + num]
    IN  IF w1.mol[m].count = 0 /\ remove
        THEN remove_molecular_species(w1, m)
        ELSE IF m \notin DOMAIN w1.mixture.index
        THEN Raise(w1, "KeyError: index[m]")
        ELSE [w1 EXCEPT
               !.heap = [t \in Families |-> [k \in HeapKeys(t) |->
                            modify(w1.heap[t][k], data_item(w1.mol[m], t, k),
                                   w1.mixture.index[m])]]]

\* the first species of complexes that is isomorphic to the molecule 'new'
\* (kamatch.SiteGraphMatcher.isomorphic), or -1
FirstIsomorphic(w, new) ==
    LET mx   == w.mixture
        hits == {i \in DOMAIN mx.complexes :
                    w.mol[mx.complexes[i]].canon = w.mol[new].canon}
    IN  IF hits = {} THEN -1
        ELSE CHOOSE i \in hits : \A j \in hits : i <= j

\* update_mixture that appends the product without looking for its species
update_mixture_append(w, new) ==
    add_molecular_species([LogCall(w, "update_mixture", new)
                              EXCEPT !.mol[new].count = 1], new)

update_mixture(w, new) ==
    LET mx == w.mixture
        c  == w.mol[new].canon
        w0 == LogCall(w, "update_mixture", new)
        i  == FirstIsomorphic(w, new)
    IN  IF sys.canonicalize /\ c \in DOMAIN mx.canonical
        THEN change_count(w0, mx.canonical[c], 1, TRUE)
        ELSE IF ~sys.canonicalize /\ sys.consolidate /\ i >= 0
        THEN change_count(w0, mx.complexes[i], 1, TRUE)
        ELSE add_molecular_species([w0 EXCEPT !.mol[new].count = 1], new)

\* the bimolecular amount that counts the molecule's own free sites once,
\* whatever its count
BimolecularAmount_own_sites_once(c, cnt, tfs, bt) ==
    LET st1 == bt[1]
        st2 == bt[2]
        a1  == free_site(c, st1) * free_site(c, st2) * (cnt - 1)
                 + free_site(c, st1) * (tfs[st2] - free_site(c, st2))
        a2  == free_site(c, st2) * free_site(c, st1) * (cnt - 1)
                 + free_site(c, st2) * (tfs[st1] - free_site(c, st1))
    IN  IF st1 # st2 THEN a1 + a2 ELSE a1

\* the bimolecular amount of negativeUpdate / positiveUpdate for one instance
\* of a molecule with canonical form c and count cnt, given the free-site totals
BimolecularAmount(c, cnt, tfs, bt) ==
    LET st1 == bt[1]
        st2 == bt[2]
        a1  == free_site(c, st1) * free_site(c, st2) * (cnt - 1)
                 + free_site(c, st1) * (tfs[st2] - free_site(c, st2) * cnt)
        a2  == free_site(c, st2) * free_site(c, st1) * (cnt - 1)
                 + free_site(c, st2) * (tfs[st1] - free_site(c, st1) * cnt)
    IN  IF st1 # st2 THEN a1 + a2 ELSE a1

\* the outflow part of negativeUpdate (sign = -1) and positiveUpdate (sign = 1)
OutflowUpdate(w, m, sign) ==
    LET mx == w.mixture
        c  == w.mol[m].canon
        at == agent_type(c)
    IN  IF DOMAIN sys.outflow_rate # {} /\ size(c) = 1
        THEN IF at \notin DOMAIN mx.activity_outflow
             THEN Raise(w, "KeyError: activity_outflow[agent_type]")
             ELSE IF at \notin DOMAIN sys.outflow_rate
             THEN Raise(w, "KeyError: outflow_rate[agent_type]")
             ELSE [w EXCEPT
                    !.mixture.activity_outflow[at] = @ + sign * sys.outflow_rate[at],
                    !.mixture.total_outflow = @ + sign * sys.outflow_rate[at]]
        ELSE w

\* negativeUpdate that takes the free-site totals down before using them
negativeUpdate_late(w, m) ==
    LET mx  == w.mixture
        c   == w.mol[m].canon
        cnt == w.mol[m].count
        tfs == [st \in DOMAIN mx.total_free_sites |->
                   mx.total_free_sites[st] - free_site(c, st)]
        w1  == [LogCall(w, "negativeUpdate", m) EXCEPT
                 !.mixture.activity_unimolecular_binding =
                     [bt \in BondTypeSet |-> @[bt] - binding(c, bt)],
                 !.mixture.activity_bond_dissociation =
                     [bt \in BondTypeSet |-> @[bt] - unbinding(c, bt)],
                 !.mixture.activity_bimolecular_binding =
                     [bt \in BondTypeSet |->
                        @[bt] - BimolecularAmount(c, cnt, tfs, bt)
                                   * rc_bond_formation_inter],
                 !.mixture.total_bond_type =
                     [bt \in BondTypeSet |-> @[bt] - bond_type(c, bt)],
                 !.mixture.total_free_sites = tfs]
    IN  OutflowUpdate(w1, m, -1)

negativeUpdate(w, m) ==
    LET mx  == w.mixture
        c   == w.mol[m].canon
        cnt == w.mol[m].count
        tfs == mx.total_free_sites
        w1  == [LogCall(w, "negativeUpdate", m) EXCEPT
                 !.mixture.activity_unimolecular_binding =
                     [bt \in BondTypeSet |-> @[bt] - binding(c, bt)],
                 !.mixture.activity_bond_dissociation =
                     [bt \in BondTypeSet |-> @[bt] - unbinding(c, bt)],
                 !.mixture.activity_bimolecular_binding =
                     [bt \in BondTypeSet |->
                        @[bt] - BimolecularAmount(c, cnt, tfs, bt)
                                   * rc_bond_formation_inter],
                 !.mixture.total_bond_type =
                     [bt \in BondTypeSet |-> @[bt] - bond_type(c, bt)],
                 !.mixture.total_free_sites =
                     [st \in DOMAIN tfs |-> tfs[st] - free_site(c, st)]]
    IN  OutflowUpdate(w1, m, -1)

\* positiveUpdate that leaves the free-site totals as they were
positiveUpdate_stale_sites(w, m) ==
    LET mx  == w.mixture
        c   == w.mol[m].canon
        cnt == w.mol[m].count
        tfs == mx.total_free_sites
        w1  == [LogCall(w, "positiveUpdate", m) EXCEPT
                 !.mixture.activity_unimolecular_binding =
                     [bt \in BondTypeSet |-> @[bt] + binding(c, bt)],
                 !.mixture.activity_bond_dissociation =
                     [bt \in BondTypeSet |-> @[bt] + unbinding(c, bt)],
                 !.mixture.activity_bimolecular_binding =
                     [bt \in BondTypeSet |->
                        @[bt] + BimolecularAmount(c, cnt, tfs, bt)
                                   * rc_bond_formation_inter],
                 !.mixture.total_bond_type =
                     [bt \in BondTypeSet |-> @[bt] + bond_type(c, bt)]]
    IN  OutflowUpdate(w1, m, 1)

positiveUpdate(w, m) ==
    LET mx  == w.mixture
        c   == w.mol[m].canon
        cnt == w.mol[m].count
        tfs == [st \in DOMAIN mx.total_free_sites |->
                   mx.total_free_sites[st] + free_site(c, st)]
        w1  == [LogCall(w, "positiveUpdate", m) EXCEPT
                 !.mixture.total_free_sites = tfs,
                 !.mixture.activity_unimolecular_binding =
                     [bt \in BondTypeSet |-> @[bt] + binding(c, bt)],
                 !.mixture.activity_bond_dissociation =
                     [bt \in BondTypeSet |-> @[bt] + unbinding(c, bt)],
                 !.mixture.activity_bimolecular_binding =
                     [bt \in BondTypeSet |->
                        @[bt] + BimolecularAmount(c, cnt, tfs, bt)
                                   * rc_bond_formation_inter],
                 !.mixture.total_bond_type =
                     [bt \in BondTypeSet |-> @[bt] + bond_type(c, bt)]]
    IN  OutflowUpdate(w1, m, 1)

\* update_overall_activities that leaves the outflow out of the total
OverallSumsNoOutflow(mx) ==
    LET ub   == SumOver(mx.activity_unimolecular_binding, BondTypeSet)
        bd   == SumOver(mx.activity_bond_dissociation, BondTypeSet)
        bb   == SumOver(mx.activity_bimolecular_binding, BondTypeSet)
        inf  == SumOver(mx.activity_inflow, DOMAIN sys.inflow_rate)
        outf == SumOver(mx.activity_outflow, DOMAIN sys.outflow_rate)
    IN  [mx EXCEPT !.unimolecular_binding_activity = ub,
                   !.bond_dissociation_activity = bd,
                   !.bimolecular_binding_activity = bb,
                   !.total_inflow = inf,
                   !.total_outflow = outf,
                   !.total_activity = ub + bd + bb + inf]

\* the sums of update_overall_activities over a mixture record
OverallSums(mx) ==
    LET ub   == SumOver(mx.activity_unimolecular_binding, BondTypeSet)
        bd   == SumOver(mx.activity_bond_dissociation, BondTypeSet)
        bb   == SumOver(mx.activity_bimolecular_binding, BondTypeSet)
        inf  == SumOver(mx.activity_inflow, DOMAIN sys.inflow_rate)
        outf == SumOver(mx.activity_outflow, DOMAIN sys.outflow_rate)
    IN  [mx EXCEPT !.unimolecular_binding_activity = ub,
                   !.bond_dissociation_activity = bd,
                   !.bimolecular_binding_activity = bb,
                   !.total_inflow = inf,
                   !.total_outflow = outf,
                   !.total_activity = ub + bd + bb + inf + outf]

update_overall_activities(w) ==
    LET mx == w.mixture
    IN  IF ~(DOMAIN sys.outflow_rate \subseteq DOMAIN mx.activity_outflow)
        THEN Raise(w, "KeyError: activity_outflow[a]")
        ELSE [w EXCEPT !.mixture = OverallSums(mx),
                       !.log = Append(@, [op |-> "update_overall_activities",
                                          m |-> 0, count |-> 0])]


\* unimolecular_reactivity_of_mixture: the sum of f(canon) * count over complexes
RECURSIVE WeightedSum(_, _, _, _, _)
WeightedSum(mols, complexes, n, F(_, _), k) ==
    IF n <= 0 THEN 0
    ELSE F(mols[complexes[n - 1]].canon, k) * mols[complexes[n - 1]].count
           + WeightedSum(mols, complexes, n - 1, F, k)

\* the tally of total_bond_type at construction (no multiplication by count)
RECURSIVE BondTally(_, _, _, _)
BondTally(mols, complexes, n, bt) ==
    IF n <= 0 THEN 0
    ELSE bond_type(mols[complexes[n - 1]].canon, bt) + BondTally(mols, complexes, n - 1, bt)

\* bimolecular_reactivity_of_mixture, second loop, for one bond type
RECURSIVE BimolecularLoop(_, _, _, _, _)
BimolecularLoop(mols, complexes, n, tfs, bt) ==
    IF n <= 0 THEN 0
    ELSE LET o == mols[complexes[n - 1]]
             c == o.canon
             a == free_site(c, bt[1]) * free_site(c, bt[2]) * (o.count - 1) * o.count
                    + free_site(c, bt[1]) * o.count
                        * (tfs[bt[2]] - free_site(c, bt[2]) * o.count)
         IN  InterActivity(a, bt) + BimolecularLoop(mols, complexes, n - 1, tfs, bt)

\* bimolecular_reactivity_of_mixture: activity_bimolecular_binding from scratch
bimolecular_reactivity_of_mixture(mols, complexes) ==
    LET tfs == [st \in SiteTypeSet |->
                  WeightedSum(mols, complexes, ListLen(complexes), free_site, st)]
    IN  [bt \in BondTypeSet |->
            BimolecularLoop(mols, complexes, ListLen(complexes), tfs, bt)]

\* the monomers of complexes, by atom type (flow_activity_of_mixture)
AtomsOf(mols, complexes) ==
    {i \in DOMAIN complexes : size(mols[complexes[i]].canon) = 1}

\* Mixture.__init__ up to, not including, update_overall_activities
MixtureFields(mols, complexes) ==
    LET n     == ListLen(complexes)
        atoms == AtomsOf(mols, complexes)
        types == {agent_type(mols[complexes[i]].canon) : i \in atoms}
        atomOf(t) == CHOOSE i \in atoms : agent_type(mols[complexes[i]].canon) = t
    IN  [complexes |-> complexes,
         number_of_species |-> n,
         index |-> [m \in {complexes[i] : i \in DOMAIN complexes} |->
                       CHOOSE i \in DOMAIN complexes : complexes[i] = m],
         canonical |-> [c \in {mols[complexes[i]].canon : i \in DOMAIN complexes} |->
                       complexes[CHOOSE i \in DOMAIN complexes :
                                    mols[complexes[i]].canon = c]],
         atom_canonical |-> IF DOMAIN sys.outflow_rate # {}
                            THEN [t \in types |-> complexes[atomOf(t)]]
                            ELSE EmptyDict,
         total_bond_type |-> [bt \in BondTypeSet |-> BondTally(mols, complexes, n, bt)],
         activity_unimolecular_binding |->
             [bt \in BondTypeSet |-> WeightedSum(mols, complexes, n, binding, bt)],
         activity_bond_dissociation |->
             [bt \in BondTypeSet |-> WeightedSum(mols, complexes, n, unbinding, bt)],
         total_free_sites |->
             [st \in SiteTypeSet |-> WeightedSum(mols, complexes, n, free_site, st)],
         activity_bimolecular_binding |-> bimolecular_reactivity_of_mixture(mols, complexes),
         activity_inflow |-> [a \in DOMAIN sys.inflow_rate |-> sys.inflow_rate[a]],
         activity_outflow |->
             IF DOMAIN sys.outflow_rate # {}
             THEN [t \in types \cap DOMAIN sys.outflow_rate |->
                      mols[complexes[atomOf(t)]].count * sys.outflow_rate[t]]
             ELSE EmptyDict,
         total_activity |-> 0,
         unimolecular_binding_activity |-> 0,
         bond_dissociation_activity |-> 0,
         bimolecular_binding_activity |-> 0,
         total_inflow |-> 0,
         total_outflow |-> 0]

(***************************************************************************)
(* kareact: the reactor.  The graph mutations of make_bond and             *)
(* dissociate_bond are taken on the isomorphism classes of this signature. *)
(***************************************************************************)
\* make_bond(A, None, ...): the two free ends of a chain close a ring
IntraBond(c) == Ring(c.n)

\* make_bond(A, B, ...): B is grafted onto A
InterBond(c1, c2) == IF c1.kind = "P" THEN PMol(2) ELSE Chain(c1.n + c2.n)

\* dissociate_bond on bond number r of the bond list: the component agents
FissionParts(c, r) ==
    IF c.kind = "chain" THEN <<Chain(r + 1), Chain(c.n - 1 - r)>>
    ELSE IF c.kind = "P" THEN <<PMol(1), PMol(1)>>
    ELSE <<Chain(c.n)>>

\* kamol.copy_molecule: a new object with the same structure
copy_molecule(w, m) ==
    [w EXCEPT !.mol = DictSet(w.mol, FreshId(w.mol), w.mol[m])]

NewObject(w, c) ==
    [w EXCEPT !.mol = DictSet(w.mol, FreshId(w.mol), [canon |-> c, count |-> 0])]

LogReact(w, m, clone) ==
    [w EXCEPT !.log = Append(@, [op |-> IF clone THEN "react_clone" ELSE "react_in_place",
                                 m |-> m, count |-> w.mol[m].count])]

inflow(w, atom_type) ==
    LET id == FreshId(w.mol)
        w1 == NewObject(w, IF atom_type = "P" THEN PMol(1) ELSE Chain(1))
    IN  [w1 EXCEPT !.products = <<id>>,
                   !.log = Append(@, [op |-> "react_inflow", m |-> id, count |-> 0])]

\* mixture.canonical is keyed by canonical forms; atom_canonical holds a
\* molecule object (or None), which is not a key of mixture.canonical
outflow(w, atom_type) ==
    IF atom_type \notin DOMAIN w.mixture.atom_canonical
    THEN Raise(w, "KeyError: atom_canonical[atom_type]")
    ELSE Raise(w, "KeyError: canonical[atom_canon]")

unimolecular_binding(w, cr) ==
    LET m == cr.molecule1
    IN  IF w.mol[m].count = 0
        THEN [LogReact(w, m, FALSE) EXCEPT !.mol[m].canon = IntraBond(@),
                                           !.products = <<m>>]
        ELSE LET id == FreshId(w.mol)
                 w1 == copy_molecule(LogReact(w, m, TRUE), m)
             IN  [w1 EXCEPT !.mol[id].canon = IntraBond(@), !.products = <<id>>]

\* swap: whether the first agent of the molecule lies in the second part
bond_dissociation(w, cr, swap) ==
    LET m     == cr.molecule1
        clone == w.mol[m].count > 0
        w1    == IF clone THEN copy_molecule(LogReact(w, m, TRUE), m)
                 ELSE LogReact(w, m, FALSE)
        A     == IF clone THEN FreshId(w.mol) ELSE m
        parts == FissionParts(w.mol[m].canon, cr.r)
    IN  IF Len(parts) = 2
        THEN LET B  == FreshId(w1.mol)
                 w2 == NewObject(w1, IF swap THEN parts[2] ELSE parts[1])
                 C  == FreshId(w2.mol)
                 w3 == NewObject(w2, IF swap THEN parts[1] ELSE parts[2])
             IN  [w3 EXCEPT !.products = <<B, C>>]
        ELSE [w1 EXCEPT !.mol[A].canon = parts[1], !.products = <<A>>]

bimolecular_binding(w, cr) ==
    LET m1 == cr.molecule1
        m2 == cr.molecule2
        c1 == w.mol[m1].canon
        c2 == w.mol[m2].canon
        n1 == w.mol[m1].count
        n2 == w.mol[m2].count
        w0 == [w EXCEPT !.log = Append(@,
                  [op |-> IF n1 = 0 \/ n2 = 0 THEN "react_in_place" ELSE "react_clone",
                   m |-> m1, count |-> n1])]
    IN  IF n1 = 0 /\ n2 = 0
        THEN IF size(c1) > size(c2)
             THEN [w0 EXCEPT !.mol[m1].canon = InterBond(c1, c2), !.products = <<m1>>]
             ELSE [w0 EXCEPT !.mol[m2].canon = InterBond(c1, c2), !.products = <<m2>>]
        ELSE IF n1 = 0
        THEN [w0 EXCEPT !.mol[m1].canon = InterBond(c1, c2), !.products = <<m1>>]
        ELSE IF n2 = 0
        THEN [w0 EXCEPT !.mol[m2].canon = InterBond(c1, c2), !.products = <<m2>>]
        ELSE LET id == FreshId(w0.mol)
                 w1 == copy_molecule(w0, m1)
             IN  [w1 EXCEPT !.mol[id].canon = InterBond(c1, c2), !.products = <<id>>]


(***************************************************************************)
(* kasim.CTMC                                                              *)
(***************************************************************************)
NoReaction ==
    [choice |-> "None", atom |-> "", molecule1 |-> 0, molecule2 |-> 0,
     bt |-> <<>>, r |-> 0]

\* the keys of a dictionary in iteration order
RECURSIVE KeysOf(_)
KeysOf(d) ==
    IF DOMAIN d = {} THEN <<>>
    ELSE LET k == CHOOSE x \in DOMAIN d : TRUE
         IN  <<k>> \o KeysOf(DictDel(d, k))

\* for k in keys: if rv < act[k]: (found) else: rv -= act[k]
RECURSIVE Scan(_, _, _, _)
Scan(keys, act, rv, i) ==
    IF i > Len(keys) THEN [found |-> FALSE, at |-> 0, rv |-> rv]
    ELSE IF rv < act[keys[i]] THEN [found |-> TRUE, at |-> i, rv |-> rv]
    ELSE Scan(keys, act, rv - act[keys[i]], i + 1)

\* Python list indexing: a negative index counts from the end
PyIndexOK(l, i) == i \in (0 - ListLen(l))..(ListLen(l) - 1)

PyIndex(l, i) == IF i >= 0 THEN l[i] ELSE l[ListLen(l) + i]

Outcome(w, cr) == [w |-> w, cr |-> cr]

\* the call heap[t][k].draw_node(rv), noted with the root of the heap it is made on
LogDraw(w, t, k, rv, first) ==
    [w EXCEPT !.draws = Append(@, [t |-> t, k |-> k, rv |-> rv,
                                   root |-> Root(w.heap[t][k]), first |-> first])]

\* lines 312-340: the two free ports of the bond to form; with this signature
\* a species has a pair of distinct agents to bind exactly when binding > 0,
\* the pair is unique, and the integer draws raise ValueError otherwise
SelectUB(w0, cr, bt, rv) ==
    LET idx == draw_node(w0.heap["bt+"][bt], rv)
        w   == LogDraw(w0, "bt+", bt, rv, TRUE)
    IN  IF ~PyIndexOK(w.mixture.complexes, idx)
        THEN {Outcome(Raise(w, "IndexError: complexes[draw_node]"), cr)}
        ELSE LET m == PyIndex(w.mixture.complexes, idx)
             IN  IF binding(w.mol[m].canon, bt) > 0
                 THEN {Outcome(w, [choice |-> "ub", atom |-> "", molecule1 |-> m,
                                   molecule2 |-> 0, bt |-> bt, r |-> 0])}
                 ELSE {Outcome(Raise(w, "ValueError: integers(high <= 0)"), cr)}

\* lines 350-359
SelectBD(w0, cr, bt, rv) ==
    LET idx == draw_node(w0.heap["bt-"][bt], rv)
        w   == LogDraw(w0, "bt-", bt, rv, TRUE)
    IN  IF ~PyIndexOK(w.mixture.complexes, idx)
        THEN {Outcome(Raise(w, "IndexError: complexes[draw_node]"), cr)}
        ELSE LET m == PyIndex(w.mixture.complexes, idx)
                 n == bond_type(w.mol[m].canon, bt)
             IN  IF n <= 0
                 THEN {Outcome(Raise(w, "ValueError: integers(high <= 0)"), cr)}
                 ELSE {Outcome(w, [choice |-> "bd", atom |-> "", molecule1 |-> m,
                                   molecule2 |-> 0, bt |-> bt, r |-> r]) : r \in 0..(n - 1)}

\* the bb branch without change_count(m1, 1) after the second draw
SelectBB2_no_undo(w, cr, bt, r1, r2) ==
    LET m1 == PyIndex(w.mixture.complexes, draw_node(w.heap["st"][bt[1]], r1))
        w0 == change_count(w, m1, -1, FALSE)
        i2 == draw_node(w0.heap["st"][bt[2]], r2)
        w1 == Then(w0, LAMBDA x : LogDraw(x, "st", bt[2], r2, FALSE))
    IN  IF w1.err # "" THEN Outcome(w1, cr)
        ELSE IF ~PyIndexOK(w1.mixture.complexes, i2)
        THEN Outcome(Raise(w1, "IndexError: complexes[draw_node]"), cr)
        ELSE LET m2 == PyIndex(w1.mixture.complexes, i2)
                 w2 == w1
             IN  IF w2.err # "" THEN Outcome(w2, cr)
                 ELSE IF free_site(w2.mol[m1].canon, bt[1]) <= 0
                         \/ free_site(w2.mol[m2].canon, bt[2]) <= 0
                 THEN Outcome(Raise(w2, "ValueError: integers(high <= 0)"), cr)
                 ELSE Outcome(w2, [choice |-> "bb", atom |-> "", molecule1 |-> m1,
                                   molecule2 |-> m2, bt |-> bt, r |-> 0])

\* lines 369-382, for the integer variates r1 and r2 of the two heap draws
SelectBB2(w, cr, bt, r1, r2) ==
    LET m1 == PyIndex(w.mixture.complexes, draw_node(w.heap["st"][bt[1]], r1))
        w0 == change_count(w, m1, -1, FALSE)
        i2 == draw_node(w0.heap["st"][bt[2]], r2)
        w1 == Then(w0, LAMBDA x : LogDraw(x, "st", bt[2], r2, FALSE))
    IN  IF w1.err # "" THEN Outcome(w1, cr)
        ELSE IF ~PyIndexOK(w1.mixture.complexes, i2)
        THEN Outcome(Raise(w1, "IndexError: complexes[draw_node]"), cr)
        ELSE LET m2 == PyIndex(w1.mixture.complexes, i2)
                 w2 == change_count(w1, m1, 1, TRUE)
             IN  IF w2.err # "" THEN Outcome(w2, cr)
                 ELSE IF free_site(w2.mol[m1].canon, bt[1]) <= 0
                         \/ free_site(w2.mol[m2].canon, bt[2]) <= 0
                 THEN Outcome(Raise(w2, "ValueError: integers(high <= 0)"), cr)
                 ELSE Outcome(w2, [choice |-> "bb", atom |-> "", molecule1 |-> m1,
                                   molecule2 |-> m2, bt |-> bt, r |-> 0])

SelectBB1(w0, cr, bt, r1) ==
    LET i1 == draw_node(w0.heap["st"][bt[1]], r1)
        w  == LogDraw(w0, "st", bt[1], r1, TRUE)
    IN  IF ~PyIndexOK(w.mixture.complexes, i1)
        THEN {Outcome(Raise(w, "IndexError: complexes[draw_node]"), cr)}
        ELSE LET m1   == PyIndex(w.mixture.complexes, i1)
                 high == w.mixture.total_free_sites[bt[2]]
                           - free_site(w.mol[m1].canon, bt[2])
             IN  IF high <= 0
                 THEN {Outcome(Raise(w, "ValueError: integers(high <= 0)"), cr)}
                 ELSE {SelectBB2(w, cr, bt, r1, r2) : r2 \in 0..(high - 1)}

SelectBB(w, cr, bt) ==
    LET high == w.mixture.total_free_sites[bt[1]]
    IN  IF high <= 0
        THEN {Outcome(Raise(w, "ValueError: integers(high <= 0)"), cr)}
        ELSE UNION {SelectBB1(w, cr, bt, r1) : r1 \in 0..(high - 1)}

NotFound(rv) == [found |-> FALSE, at |-> 0, rv |-> rv]

\* select_reaction without "rv -= total_inflow" between the first two bands
Band_no_inflow_shift(w, rv) ==
    LET mx   == w.mixture
        inK  == KeysOf(mx.activity_inflow)
        outK == KeysOf(mx.activity_outflow)
        s1   == IF rv < mx.total_inflow THEN Scan(inK, mx.activity_inflow, rv, 1)
                ELSE NotFound(rv)
        rv2  == s1.rv
        s2   == IF rv2 < mx.total_outflow THEN Scan(outK, mx.activity_outflow, rv2, 1)
                ELSE NotFound(rv2)
        rv3  == s2.rv - mx.total_outflow
        s3   == IF rv3 < mx.unimolecular_binding_activity
                THEN Scan(bond_types, mx.activity_unimolecular_binding, rv3, 1)
                ELSE NotFound(rv3)
        rv4  == s3.rv - mx.unimolecular_binding_activity
        s4   == IF rv4 < mx.bond_dissociation_activity
                THEN Scan(bond_types, mx.activity_bond_dissociation, rv4, 1)
                ELSE NotFound(rv4)
        rv5  == s4.rv - mx.bond_dissociation_activity
        s5   == IF rv5 < mx.bimolecular_binding_activity
                THEN Scan(bond_types, mx.activity_bimolecular_binding, rv5, 1)
                ELSE NotFound(rv5)
    IN  IF s1.found THEN [choice |-> "inflow", key |-> inK[s1.at], rv |-> s1.rv]
        ELSE IF s2.found THEN [choice |-> "outflow", key |-> outK[s2.at], rv |-> s2.rv]
        ELSE IF s3.found THEN [choice |-> "ub", key |-> bond_types[s3.at], rv |-> s3.rv]
        ELSE IF s4.found THEN [choice |-> "bd", key |-> bond_types[s4.at], rv |-> s4.rv]
        ELSE IF s5.found THEN [choice |-> "bb", key |-> bond_types[s5.at], rv |-> 0]
        ELSE [choice |-> "None", key |-> "", rv |-> 0]

\* select_reaction, lines 286-368: the channel and the stratum that the variate
\* rv falls in, with what is left of rv there (the bb branch does not use it)
Band(w, rv) ==
    LET mx   == w.mixture
        inK  == KeysOf(mx.activity_inflow)
        outK == KeysOf(mx.activity_outflow)
        s1   == IF rv < mx.total_inflow THEN Scan(inK, mx.activity_inflow, rv, 1)
                ELSE NotFound(rv)
        rv2  == s1.rv - mx.total_inflow
        s2   == IF rv2 < mx.total_outflow THEN Scan(outK, mx.activity_outflow, rv2, 1)
                ELSE NotFound(rv2)
        rv3  == s2.rv - mx.total_outflow
        s3   == IF rv3 < mx.unimolecular_binding_activity
                THEN Scan(bond_types, mx.activity_unimolecular_binding, rv3, 1)
                ELSE NotFound(rv3)
        rv4  == s3.rv - mx.unimolecular_binding_activity
        s4   == IF rv4 < mx.bond_dissociation_activity
                THEN Scan(bond_types, mx.activity_bond_dissociation, rv4, 1)
                ELSE NotFound(rv4)
        rv5  == s4.rv - mx.bond_dissociation_activity
        s5   == IF rv5 < mx.bimolecular_binding_activity
                THEN Scan(bond_types, mx.activity_bimolecular_binding, rv5, 1)
                ELSE NotFound(rv5)
    IN  IF s1.found THEN [choice |-> "inflow", key |-> inK[s1.at], rv |-> s1.rv]
        ELSE IF s2.found THEN [choice |-> "outflow", key |-> outK[s2.at], rv |-> s2.rv]
        ELSE IF s3.found THEN [choice |-> "ub", key |-> bond_types[s3.at], rv |-> s3.rv]
        ELSE IF s4.found THEN [choice |-> "bd", key |-> bond_types[s4.at], rv |-> s4.rv]
        ELSE IF s5.found THEN [choice |-> "bb", key |-> bond_types[s5.at], rv |-> 0]
        ELSE [choice |-> "None", key |-> "", rv |-> 0]

\* select_reaction within the band b: the set of possible outcomes, each the
\* world after the call and the value of current_reaction
Resolve(w, cr, b) ==
    CASE b.choice = "inflow" ->
           {Outcome(w, [NoReaction EXCEPT !.choice = "inflow", !.atom = b.key])}
      [] b.choice = "outflow" ->
           {Outcome(w, [NoReaction EXCEPT !.choice = "outflow", !.atom = b.key])}
      [] b.choice = "ub" -> SelectUB(w, cr, b.key, b.rv)
      [] b.choice = "bd" -> SelectBD(w, cr, b.key, b.rv)
      [] b.choice = "bb" -> SelectBB(w, cr, b.key)
      [] OTHER -> {Outcome(w, cr)}

\* select_reaction for the variate rv
select_reaction(w, cr, rv) == Resolve(w, cr, Band(w, rv))

\* the products loop of the 'bd' branch
RECURSIVE ProductsLoop(_, _, _)
ProductsLoop(w, products, i) ==
    IF i > Len(products) THEN w
    ELSE LET w1 == Then(w, LAMBDA x : update_mixture(x, products[i]))
             w2 == Then(w1, LAMBDA x : positiveUpdate(x, products[i]))
         IN  ProductsLoop(w2, products, i + 1)

\* execute_reaction whose bb branch calls both negativeUpdates before the
\* change_counts
execute_reaction_updates_first(w, cr, swap) ==
    LET m1 == cr.molecule1
        m2 == cr.molecule2
    IN  CASE cr.choice = "inflow" ->
               LET w1 == inflow(w, cr.atom)
                   w2 == Then(w1, LAMBDA x : update_mixture(x, w1.products[1]))
                   w3 == Then(w2, LAMBDA x : positiveUpdate(x, w1.products[1]))
               IN  Then(w3, update_overall_activities)
          [] cr.choice = "outflow" ->
               LET w1 == outflow(w, cr.atom)
                   w2 == Then(w1, LAMBDA x : negativeUpdate(x, w1.products[1]))
                   w3 == Then(w2, LAMBDA x : change_count(x, w1.products[1], -1, TRUE))
               IN  Then(w3, update_overall_activities)
          [] cr.choice = "ub" ->
               LET w1 == unimolecular_binding(w, cr)
                   w2 == Then(w1, LAMBDA x : negativeUpdate(x, m1))
                   w3 == Then(w2, LAMBDA x : change_count(x, m1, -1, TRUE))
                   w4 == Then(w3, LAMBDA x : update_mixture(x, w1.products[1]))
                   w5 == Then(w4, LAMBDA x : positiveUpdate(x, w1.products[1]))
               IN  Then(w5, update_overall_activities)
          [] cr.choice = "bd" ->
               LET w1 == bond_dissociation(w, cr, swap)
                   w2 == Then(w1, LAMBDA x : negativeUpdate(x, m1))
                   w3 == Then(w2, LAMBDA x : change_count(x, m1, -1, TRUE))
                   w4 == ProductsLoop(w3, w1.products, 1)
               IN  Then(w4, update_overall_activities)
          [] cr.choice = "bb" ->
               LET w1 == bimolecular_binding(w, cr)
                   w2 == Then(w1, LAMBDA x : negativeUpdate(x, m1))
                   w3 == Then(w2, LAMBDA x : negativeUpdate(x, m2))
                   w4 == Then(w3, LAMBDA x : change_count(x, m1, -1, TRUE))
                   w5 == Then(w4, LAMBDA x : change_count(x, m2, -1, TRUE))
                   w6 == Then(w5, LAMBDA x : update_mixture(x, w1.products[1]))
                   w7 == Then(w6, LAMBDA x : positiveUpdate(x, w1.products[1]))
               IN  Then(w7, update_overall_activities)
          [] OTHER -> Raise(w, "TypeError: cannot unpack None")

\* execute_reaction on current_reaction cr
execute_reaction(w, cr, swap) ==
    LET m1 == cr.molecule1
        m2 == cr.molecule2
    IN  CASE cr.choice = "inflow" ->
               LET w1 == inflow(w, cr.atom)
                   w2 == Then(w1, LAMBDA x : update_mixture(x, w1.products[1]))
                   w3 == Then(w2, LAMBDA x : positiveUpdate(x, w1.products[1]))
               IN  Then(w3, update_overall_activities)
          [] cr.choice = "outflow" ->
               LET w1 == outflow(w, cr.atom)
                   w2 == Then(w1, LAMBDA x : negativeUpdate(x, w1.products[1]))
                   w3 == Then(w2, LAMBDA x : change_count(x, w1.products[1], -1, TRUE))
               IN  Then(w3, update_overall_activities)
          [] cr.choice = "ub" ->
               LET w1 == unimolecular_binding(w, cr)
                   w2 == Then(w1, LAMBDA x : negativeUpdate(x, m1))
                   w3 == Then(w2, LAMBDA x : change_count(x, m1, -1, TRUE))
                   w4 == Then(w3, LAMBDA x : update_mixture(x, w1.products[1]))
                   w5 == Then(w4, LAMBDA x : positiveUpdate(x, w1.products[1]))
               IN  Then(w5, update_overall_activities)
          [] cr.choice = "bd" ->
               LET w1 == bond_dissociation(w, cr, swap)
                   w2 == Then(w1, LAMBDA x : negativeUpdate(x, m1))
                   w3 == Then(w2, LAMBDA x : change_count(x, m1, -1, TRUE))
                   w4 == ProductsLoop(w3, w1.products, 1)
               IN  Then(w4, update_overall_activities)
          [] cr.choice = "bb" ->
               LET w1 == bimolecular_binding(w, cr)
                   w2 == Then(w1, LAMBDA x : negativeUpdate(x, m1))
                   w3 == Then(w2, LAMBDA x : change_count(x, m1, -1, TRUE))
                   w4 == Then(w3, LAMBDA x : negativeUpdate(x, m2))
                   w5 == Then(w4, LAMBDA x : change_count(x, m2, -1, TRUE))
                   w6 == Then(w5, LAMBDA x : update_mixture(x, w1.products[1]))
                   w7 == Then(w6, LAMBDA x : positiveUpdate(x, w1.products[1]))
               IN  Then(w7, update_overall_activities)
          [] OTHER -> Raise(w, "TypeError: cannot unpack None")


(***************************************************************************)
(* The simulation: construction, then main_loop's advance_time,            *)
(* select_reaction, execute_reaction.  pc is the position in the loop;     *)
(* "crashed" is an exception that left main_loop.                          *)
(***************************************************************************)
\* the configurations kaparam accepts: no consolidation implies no
\* canonicalization, and an inflow requires canonicalization
Configs ==
    {c \in [canonicalize : BOOLEAN, consolidate : BOOLEAN,
            inflow_rate : {EmptyDict, [a \in {"A"} |-> rate_inflow_A]},
            outflow_rate : {EmptyDict, [a \in {"A"} |-> rate_outflow_A]}] :
        /\ c.canonicalize => c.consolidate
        /\ DOMAIN c.inflow_rate # {} => c.canonicalize}

\* create_atoms: one species per agent type with a positive initial count
InitMols(a0, p0) ==
    IF a0 > 0 /\ p0 > 0
    THEN ListOfSeq(<<[canon |-> Chain(1), count |-> a0], [canon |-> PMol(1), count |-> p0]>>)
    ELSE IF a0 > 0 THEN ListOfSeq(<<[canon |-> Chain(1), count |-> a0]>>)
    ELSE IF p0 > 0 THEN ListOfSeq(<<[canon |-> PMol(1), count |-> p0]>>)
    ELSE EmptyList

\* the molecule objects are named 1, 2, ...; complexes lists them in order
InitStore(a0, p0) ==
    [i \in 1..ListLen(InitMols(a0, p0)) |-> InitMols(a0, p0)[i - 1]]

InitComplexes(a0, p0) == [i \in 0..(ListLen(InitMols(a0, p0)) - 1) |-> i + 1]

\* Mixture.__init__ followed by CTMC.__init__
Construct(a0, p0) ==
    LET mols == InitStore(a0, p0)
        cx   == InitComplexes(a0, p0)
        w0   == [mol |-> mols, mixture |-> MixtureFields(mols, cx), heap |-> EmptyDict,
                 log |-> <<>>, err |-> "", products |-> <<>>, draws |-> <<>>]
        w1   == update_overall_activities(w0)
    IN  Then(w1, LAMBDA x : [x EXCEPT !.heap = initialize_heaps(mols, cx), !.log = <<>>])

World ==
    [mol |-> mol, mixture |-> mixture, heap |-> heap, log |-> <<>>, err |-> "",
     products |-> <<>>, draws |-> <<>>]

\* the number of agents in the mixture
RECURSIVE NumAgents(_, _, _)
NumAgents(mols, complexes, n) ==
    IF n <= 0 THEN 0
    ELSE size(mols[complexes[n - 1]].canon) * mols[complexes[n - 1]].count
           + NumAgents(mols, complexes, n - 1)

\* Objects no longer referenced are garbage.  An object's identity is its
\* address, which carries no meaning beyond equality: after an event the live
\* objects are renamed, those of complexes by their position, the others (held
\* by current_reaction, a dictionary value or the log) after them.
Live(w, cr) ==
    LET mx == w.mixture
    IN  ({mx.complexes[i] : i \in DOMAIN mx.complexes}
           \cup DOMAIN mx.index
           \cup {mx.canonical[c] : c \in DOMAIN mx.canonical}
           \cup {mx.atom_canonical[t] : t \in DOMAIN mx.atom_canonical}
           \cup {cr.molecule1, cr.molecule2}) \ {0}

Renaming(w, cr) ==
    LET cx     == w.mixture.complexes
        n      == ListLen(cx)
        inList == {cx[i] : i \in DOMAIN cx}
        named  == Live(w, cr) \cup ({w.log[i].m : i \in DOMAIN w.log} \ {0})
        others == named \ inList
    IN  IF Cardinality(inList) # n
        THEN [i \in named \cup {0} |-> i]
        ELSE [i \in named \cup {0} |->
                IF i = 0 THEN 0
                ELSE IF i \in inList THEN 1 + (CHOOSE k \in DOMAIN cx : cx[k] = i)
                ELSE n + Cardinality({j \in others : j <= i})]

Collect(w, cr) ==
    LET mx   == w.mixture
        ren  == Renaming(w, cr)
        live == Live(w, cr) \cap DOMAIN w.mol
        back == [k \in {ren[i] : i \in live} |-> CHOOSE i \in live : ren[i] = k]
    IN  [mol |-> [k \in DOMAIN back |-> w.mol[back[k]]],
         mixture |-> [mx EXCEPT
             !.complexes = [i \in DOMAIN mx.complexes |-> ren[mx.complexes[i]]],
             !.index = [k \in {ren[m] : m \in DOMAIN mx.index} |->
                           mx.index[CHOOSE m \in DOMAIN mx.index : ren[m] = k]],
             !.canonical = [c \in DOMAIN mx.canonical |-> ren[mx.canonical[c]]],
             !.atom_canonical =
                 [t \in DOMAIN mx.atom_canonical |-> ren[mx.atom_canonical[t]]]],
         cr |-> [cr EXCEPT !.molecule1 = ren[@], !.molecule2 = ren[@]],
         log |-> [i \in DOMAIN w.log |-> [w.log[i] EXCEPT !.m = ren[@]]]]

Init ==
    /\ hp = make_tree(EmptyList)
    /\ hop = NoOp
    /\ sys \in Configs
    /\ \E a0 \in 0..MaxAgents, p0 \in 0..MaxAgents :
         LET w == Construct(a0, p0)
         IN  /\ a0 + p0 <= MaxAgents
             /\ mol = w.mol
             /\ mixture = w.mixture
             /\ heap = w.heap
             /\ pc = IF w.err = "" THEN "idle" ELSE "crashed"
             /\ sim = [current_reaction |-> NoReaction, err |-> w.err]
    /\ log = <<>>

\* simulator.advance_time(): the scale of the waiting time is 1 / total_activity
AdvanceTime ==
    /\ pc = "idle"
    /\ pc' = IF mixture.total_activity = 0 THEN "crashed" ELSE "timed"
    /\ sim' = [sim EXCEPT !.err = IF mixture.total_activity = 0
                                  THEN "ZeroDivisionError" ELSE ""]
    /\ log' = <<>>
    /\ UNCHANGED <<hp, hop, sys, mol, mixture, heap>>

\* simulator.select_reaction(); rv stands for the variates of [rv, rv + 1).
\* An inflow is not taken once MaxAgents agents are present.
Select ==
    /\ pc = "timed"
    /\ \E b \in {Band(World, rv) : rv \in 0..(mixture.total_activity - 1)} :
         \E o \in Resolve(World, sim.current_reaction, b) :
            /\ (o.w.err = "" /\ o.cr.choice = "inflow") =>
                   NumAgents(mol, mixture.complexes, ListLen(mixture.complexes)) < MaxAgents
            /\ mol' = o.w.mol
            /\ mixture' = o.w.mixture
            /\ heap' = o.w.heap
            /\ sim' = [current_reaction |-> o.cr, err |-> o.w.err]
            /\ pc' = IF o.w.err = "" THEN "selected" ELSE "crashed"
    /\ UNCHANGED <<hp, hop, sys, log>>

\* simulator.execute_reaction()
Execute ==
    /\ pc = "selected"
    /\ \E swap \in IF sim.current_reaction.choice = "bd" THEN BOOLEAN ELSE {FALSE} :
         LET w == execute_reaction(World, sim.current_reaction, swap)
             g == Collect(w, sim.current_reaction)
         IN  /\ mol' = g.mol
             /\ mixture' = g.mixture
             /\ heap' = w.heap
             /\ log' = g.log
             /\ sim' = [current_reaction |-> g.cr, err |-> w.err]
             /\ pc' = IF w.err = "" THEN "idle" ELSE "crashed"
    /\ UNCHANGED <<hp, hop, sys>>

Next == AdvanceTime \/ Select \/ Execute

Spec == Init /\ [][Next]_vars

(***************************************************************************)
(* The simulator started from a snapshot file: the initial mixture holds   *)
(* the species of the file with their counts, bonded species included.     *)
(***************************************************************************)
SnapshotSpecies == {Chain(1), Chain(2), PMol(2)}

\* the mixtures a snapshot file can hold: pairwise distinct species, each with
\* a count, at most MaxAgents agents in all
Snapshots ==
    {s \in UNION {[1..n -> [canon : SnapshotSpecies, count : 1..MaxCount]] : n \in 1..2} :
        /\ \A i, j \in DOMAIN s : s[i].canon = s[j].canon => i = j
        /\ SumOver([i \in DOMAIN s |-> size(s[i].canon) * s[i].count], DOMAIN s) <= MaxAgents}

\* Mixture.__init__ on the complexes of a snapshot, followed by CTMC.__init__
ConstructSnapshot(s) ==
    LET cx == [i \in 0..(Len(s) - 1) |-> i + 1]
        w0 == [mol |-> s, mixture |-> MixtureFields(s, cx), heap |-> EmptyDict,
               log |-> <<>>, err |-> "", products |-> <<>>, draws |-> <<>>]
        w1 == update_overall_activities(w0)
    IN  Then(w1, LAMBDA x : [x EXCEPT !.heap = initialize_heaps(s, cx), !.log = <<>>])

SnapInit ==
    /\ hp = make_tree(EmptyList)
    /\ hop = NoOp
    /\ sys \in Configs
    /\ \E s \in Snapshots :
         LET w == ConstructSnapshot(s)
         IN  /\ mol = w.mol
             /\ mixture = w.mixture
             /\ heap = w.heap
             /\ pc = IF w.err = "" THEN "idle" ELSE "crashed"
             /\ sim = [current_reaction |-> NoReaction, err |-> w.err]
    /\ log = <<>>

SpecSnap == SnapInit /\ [][Next]_vars


(***************************************************************************)
(* The molecule at the level of agents, sites and ports: make_bond and     *)
(* dissociate_bond of kareact.py and the choice of the two ports of an     *)
(* intra-molecular binding in kasim.py.  A site type 'A.x' is the pair     *)
(* <<"A", "x">>, a port is <<label, site>>, a bond a pair of ports, the    *)
(* agents dictionary a function on the labels.  The variable mol holds one *)
(* KappaMolecule, sim the ports chosen last; the signature is any the      *)
(* parser accepts.                                                         *)
(***************************************************************************)
MaxMolAgents == 3

\* the bond '.' of a free site
Free == <<0, "">>

\* A(l[r.A], r[l.A], c[c.A]);  A(l[r.A], r[l.A c.A], c[r.A]);
\* A(x[x.B], z[z.B]), B(x[x.A], z[z.A]);  A(l[r.A], r[l.A]), P(d[d.P])
Signatures ==
    { [sites |-> [A |-> <<"l", "r", "c">>],
       bond_types |-> << << <<"A", "l">>, <<"A", "r">> >>, << <<"A", "c">>, <<"A", "c">> >> >>],
      [sites |-> [A |-> <<"l", "r", "c">>],
       bond_types |-> << << <<"A", "l">>, <<"A", "r">> >>, << <<"A", "c">>, <<"A", "r">> >> >>],
      [sites |-> [A |-> <<"x", "z">>, B |-> <<"x", "z">>],
       bond_types |-> << << <<"A", "x">>, <<"B", "x">> >>, << <<"A", "z">>, <<"B", "z">> >> >>],
      [sites |-> [A |-> <<"l", "r">>, P |-> <<"d">>],
       bond_types |-> << << <<"A", "l">>, <<"A", "r">> >>, << <<"P", "d">>, <<"P", "d">> >> >>] }

Range(s) == {s[i] : i \in DOMAIN s}

SiteTypesOf(sig) == UNION {{<<a, s>> : s \in Range(sig.sites[a])} : a \in DOMAIN sig.sites}

\* the site type of a port: the agent's type, '.', the site
SiteTypeOf(agents, port) == <<agents[port[1]].type, port[2]>>

\* kamol.bond2type: the bond type of a bond, its site types in the
\* signature's order
bond2type(m, agents, b) ==
    LET t1 == SiteTypeOf(agents, b[1])
        t2 == SiteTypeOf(agents, b[2])
    IN  IF <<t1, t2>> \in Range(m.signature.bond_types) THEN <<t1, t2>> ELSE <<t2, t1>>

\* all ports of the agents 1..i, by agent and by site in declaration order
RECURSIVE AllPorts(_, _, _)
AllPorts(sig, agents, i) ==
    IF i <= 0 THEN <<>>
    ELSE AllPorts(sig, agents, i - 1)
           \o [k \in 1..Len(sig.sites[agents[i].type]) |-> <<i, sig.sites[agents[i].type][k]>>]

\* the index dictionary of a list: each entry's position, counted from 0
IndexOf(l) == [x \in Range(l) |-> (CHOOSE k \in DOMAIN l : l[k] = x) - 1]

\* an adjacency that lists a partner agent once, however many bonds link to it
adjacency_of_distinct(sig, agents, a) ==
    LET ss    == sig.sites[agents[a].type]
        keep  == SelectSeq([k \in 1..Len(ss) |-> k],
                           LAMBDA k : /\ agents[a].iface[ss[k]] # Free
                                      /\ \A j \in 1..(k - 1) :
                                            agents[a].iface[ss[j]][1] # agents[a].iface[ss[k]][1])
    IN  [k \in 1..Len(keep) |-> agents[a].iface[ss[keep[k]]][1]]

\* the partner agents of the bound sites of agent a, in the order of its
\* interface: [iface[s]['bond'].split('@')[0] for s in iface if bound]
adjacency_of(sig, agents, a) ==
    LET bound == SelectSeq(sig.sites[agents[a].type], LAMBDA s : agents[a].iface[s] # Free)
    IN  [k \in 1..Len(bound) |-> agents[a].iface[bound[k]][1]]

\* kamol.KappaMolecule(agents): the inventory of a molecule built from an
\* agents dictionary whose labels are 1..n
KappaMolecule(sig, agents) ==
    LET n      == Cardinality(DOMAIN agents)
        ports  == AllPorts(sig, agents, n)
        lower  == SelectSeq(ports, LAMBDA p : /\ agents[p[1]].iface[p[2]] # Free
                                              /\ p[1] < agents[p[1]].iface[p[2]][1])
        bonds  == [k \in 1..Len(lower) |-> <<lower[k], agents[lower[k][1]].iface[lower[k][2]]>>]
        m0     == [signature |-> sig]
        isFree(a, s) == s \in DOMAIN agents[a].iface /\ agents[a].iface[s] = Free
    IN  [signature |-> sig,
         agents |-> agents,
         bonds |-> Range(bonds),
         adjacency |-> [a \in DOMAIN agents |-> adjacency_of(sig, agents, a)],
         degree |-> [a \in DOMAIN agents |->
                       Cardinality({s \in DOMAIN agents[a].iface : agents[a].iface[s] # Free})],
         free_site_list |->
            [st \in SiteTypesOf(sig) |->
               SelectSeq(ports, LAMBDA p : SiteTypeOf(agents, p) = st
                                           /\ agents[p[1]].iface[p[2]] = Free)],
         free_site_list_idx |->
            [st \in SiteTypesOf(sig) |->
               IndexOf(SelectSeq(ports, LAMBDA p : SiteTypeOf(agents, p) = st
                                                   /\ agents[p[1]].iface[p[2]] = Free))],
         free_site |->
            [st \in SiteTypesOf(sig) |->
               Cardinality({a \in DOMAIN agents : agents[a].type = st[1] /\ isFree(a, st[2])})],
         bond_list |->
            [bt \in Range(sig.bond_types) |->
               SelectSeq(bonds, LAMBDA b : bond2type(m0, agents, b) = bt)],
         bond_list_idx |->
            [bt \in Range(sig.bond_types) |->
               IndexOf(SelectSeq(bonds, LAMBDA b : bond2type(m0, agents, b) = bt))],
         bond_type |->
            [bt \in Range(sig.bond_types) |->
               Cardinality({k \in 1..Len(bonds) : bond2type(m0, agents, bonds[k]) = bt})],
         agent_self_binding |->
            [bt \in Range(sig.bond_types) |->
               IF bt[1] = bt[2] THEN 0
               ELSE Cardinality({a \in DOMAIN agents :
                                   /\ agents[a].type = bt[1][1] /\ agents[a].type = bt[2][1]
                                   /\ isFree(a, bt[1][2]) /\ isFree(a, bt[2][2])})]]

\* the default state of an agent type: every site free
Atom(sig, t) == (1 :> [type |-> t, iface |-> [s \in Range(sig.sites[t]) |-> Free]])

\* kamol.copy_molecule(m, id_shift): the same molecule, every label shifted
copy_shifted(m, shift) ==
    LET sh(p)  == IF p = Free THEN Free ELSE <<p[1] + shift, p[2]>>
        labels == {a + shift : a \in DOMAIN m.agents}
    IN  [m EXCEPT
           !.agents = [a \in labels |->
                         [type |-> m.agents[a - shift].type,
                          iface |-> [s \in DOMAIN m.agents[a - shift].iface |->
                                       sh(m.agents[a - shift].iface[s])]]],
           !.bonds = {<<sh(b[1]), sh(b[2])>> : b \in @},
           !.adjacency = [a \in labels |->
                            [k \in DOMAIN m.adjacency[a - shift] |->
                               m.adjacency[a - shift][k] + shift]],
           !.degree = [a \in labels |-> m.degree[a - shift]],
           !.free_site_list = [st \in DOMAIN @ |-> [k \in DOMAIN @[st] |-> sh(@[st][k])]],
           !.free_site_list_idx =
               [st \in DOMAIN @ |->
                  [p \in {sh(q) : q \in DOMAIN @[st]} |-> @[st][<<p[1] - shift, p[2]>>]]],
           !.bond_list = [bt \in DOMAIN @ |->
                            [k \in DOMAIN @[bt] |-> <<sh(@[bt][k][1]), sh(@[bt][k][2])>>]],
           !.bond_list_idx =
               [bt \in DOMAIN @ |->
                  [b \in {<<sh(c[1]), sh(c[2])>> : c \in DOMAIN @[bt]} |->
                     @[bt][<< <<b[1][1] - shift, b[1][2]>>, <<b[2][1] - shift, b[2][2]>> >>]]]]

\* None where a molecule is expected
NoMolecule == [agents |-> <<>>]

\* remove = idx[x]; list[remove] = list[-1]; list.pop(): removal in O(1)
SwapRemove(l, idx, x) ==
    LET remove == idx[x] + 1
    IN  [k \in 1..(Len(l) - 1) |-> IF k = remove THEN l[Len(l)] ELSE l[k]]

\* an index dictionary that forgets x and leaves the other positions alone
IdxRemove_no_move(l, idx, x) == [y \in (DOMAIN idx) \ {x} |-> idx[y]]

\* idx[list[-1]] = idx[x]; idx.pop(x): the index dictionary after the removal
IdxRemove(l, idx, x) ==
    LET moved == [idx EXCEPT ![l[Len(l)]] = idx[x]]
    IN  [y \in (DOMAIN idx) \ {x} |-> moved[y]]

\* the removal of port from the free-site list of site type st and from its
\* index dictionary; L holds the lists and the index dictionaries
RemovePort(L, st, port) ==
    [list |-> [L.list EXCEPT ![st] = SwapRemove(@, L.idx[st], port)],
     idx  |-> [L.idx EXCEPT ![st] = IdxRemove(L.list[st], @, port)]]

\* the four tests of the agent self-binding correction for bond type bt,
\* the ends of the bond being of site types ta (interface iface_a) and tb
SelfBindingTests(bt, ta, iface_a, tb, iface_b) ==
    LET s1 == bt[1][2]
        s2 == bt[2][2]
        test(c, s, iface) == IF c /\ s \in DOMAIN iface /\ iface[s] = Free THEN 1 ELSE 0
    IN  IF bt[1] = bt[2] THEN 0
        ELSE test(bt[1] = ta, s2, iface_a) + test(bt[2] = ta, s1, iface_a)
               + test(bt[1] = tb, s2, iface_b) + test(bt[2] = tb, s1, iface_b)

\* make_bond(A, B, A_port, B_port): B, its labels shifted, is grafted onto A
\* (B is None for an intra-molecular bond), then the bond is made
make_bond(A, B, A_port, B_port) ==
    LET bts == Range(A.signature.bond_types)
        sts == SiteTypesOf(A.signature)
        G   == IF DOMAIN B.agents = {} THEN A
               ELSE [A EXCEPT
                       !.agents = B.agents @@ A.agents,
                       !.degree = B.degree @@ A.degree,
                       !.bond_type = [bt \in bts |-> A.bond_type[bt] + B.bond_type[bt]],
                       !.bond_list_idx =
                           [bt \in bts |->
                              [b \in DOMAIN B.bond_list_idx[bt] |->
                                 B.bond_list_idx[bt][b] + Len(A.bond_list[bt])]
                                @@ A.bond_list_idx[bt]],
                       !.bond_list = [bt \in bts |-> A.bond_list[bt] \o B.bond_list[bt]],
                       !.agent_self_binding =
                           [bt \in bts |-> A.agent_self_binding[bt] + B.agent_self_binding[bt]],
                       !.free_site = [st \in sts |-> A.free_site[st] + B.free_site[st]],
                       !.free_site_list_idx =
                           [st \in sts |->
                              [q \in DOMAIN B.free_site_list_idx[st] |->
                                 B.free_site_list_idx[st][q] + Len(A.free_site_list[st])]
                                @@ A.free_site_list_idx[st]],
                       !.free_site_list =
                           [st \in sts |-> A.free_site_list[st] \o B.free_site_list[st]],
                       !.bonds = A.bonds \cup B.bonds,
                       !.adjacency = B.adjacency @@ A.adjacency]
        a   == A_port[1]
        b   == B_port[1]
        ag  == [G.agents EXCEPT ![a].iface[A_port[2]] = B_port, ![b].iface[B_port[2]] = A_port]
        bnd == IF a <= b THEN <<A_port, B_port>> ELSE <<B_port, A_port>>
        bt0 == bond2type(A, ag, bnd)
        ta  == SiteTypeOf(ag, A_port)
        tb  == SiteTypeOf(ag, B_port)
        L0  == [list |-> G.free_site_list, idx |-> G.free_site_list_idx]
        L2  == RemovePort(RemovePort(L0, ta, A_port), tb, B_port)
        f1  == [G.free_site EXCEPT ![ta] = @ - 1]
        f2  == [f1 EXCEPT ![tb] = @ - 1]
    IN  [G EXCEPT
           !.agents = ag,
           !.adjacency = [@ EXCEPT ![a] = adjacency_of(A.signature, ag, a),
                                   ![b] = adjacency_of(A.signature, ag, b)],
           !.bonds = @ \cup {bnd},
           !.bond_list[bt0] = Append(@, bnd),
           !.bond_list_idx[bt0] = (bnd :> G.bond_type[bt0]) @@ @,
           !.bond_type[bt0] = @ + 1,
           !.degree = [@ EXCEPT ![a] = @ + 1, ![b] = @ + 1],
           !.free_site_list = L2.list,
           !.free_site_list_idx = L2.idx,
           !.free_site = f2,
           !.agent_self_binding =
               [bt \in bts |-> G.agent_self_binding[bt]
                                 - SelfBindingTests(bt, ta, ag[a].iface, tb, ag[b].iface)]]

\* a traversal that stops at the neighbours of S
components_one_step(adjacency, S) == S \cup UNION {Range(adjacency[x]) : x \in S}

\* components: the agents reached from those of S along kappaMol.adjacency
RECURSIVE components(_, _)
components(adjacency, S) ==
    LET T == S \cup UNION {Range(adjacency[x]) : x \in S}
    IN  IF T = S THEN S ELSE components(adjacency, T)

\* the agents of S as a dictionary with labels 1..|S|, in the order of S
Fragment(agents, S) ==
    LET rank(x) == Cardinality({y \in S : y <= x})
        old(k)  == CHOOSE x \in S : rank(x) = k
        re(p)   == IF p = Free THEN Free ELSE <<rank(p[1]), p[2]>>
    IN  [k \in 1..Cardinality(S) |->
           [type |-> agents[old(k)].type,
            iface |-> [s \in DOMAIN agents[old(k)].iface |-> re(agents[old(k)].iface[s])]]]

\* what components returns: the agent dictionary itself if the traversal from
\* its first agent visits every agent, else the visited agents and the rest
component_agents(ag, adjacency) ==
    LET first == CHOOSE x \in DOMAIN ag : \A y \in DOMAIN ag : x <= y
        comp  == components(adjacency, {first})
    IN  IF Cardinality(comp) = Cardinality(DOMAIN ag)
        THEN <<DOMAIN ag>> ELSE <<comp, (DOMAIN ag) \ comp>>

\* dissociate_bond(A, port1, port2): the number of products, the products and
\* the agents (by their labels in A) of each product
dissociate_bond(A, port1, port2) ==
    LET bts  == Range(A.signature.bond_types)
        a    == port1[1]
        b    == port2[1]
        ag   == [A.agents EXCEPT ![a].iface[port1[2]] = Free, ![b].iface[port2[2]] = Free]
        adj  == [A.adjacency EXCEPT ![a] = adjacency_of(A.signature, ag, a),
                                    ![b] = adjacency_of(A.signature, ag, b)]
        parts == component_agents(ag, adj)
        bnd  == IF a <= b THEN <<port1, port2>> ELSE <<port2, port1>>
        bt0  == bond2type(A, A.agents, bnd)
        ta   == SiteTypeOf(ag, port1)
        tb   == SiteTypeOf(ag, port2)
        l1   == [A.free_site_list EXCEPT ![ta] = Append(@, port1)]
        l2   == [l1 EXCEPT ![tb] = Append(@, port2)]
        i1   == [A.free_site_list_idx EXCEPT ![ta] = (port1 :> A.free_site[ta]) @@ @]
        f1   == [A.free_site EXCEPT ![ta] = @ + 1]
        i2   == [i1 EXCEPT ![tb] = (port2 :> f1[tb]) @@ @]
        f2   == [f1 EXCEPT ![tb] = @ + 1]
    IN  IF Len(parts) = 2
        THEN [n |-> 2,
              parts |-> parts,
              products |-> <<KappaMolecule(A.signature, Fragment(ag, parts[1])),
                             KappaMolecule(A.signature, Fragment(ag, parts[2]))>>]
        ELSE [n |-> 1,
              parts |-> parts,
              products |->
                << [A EXCEPT
                      !.agents = ag,
                      !.adjacency = adj,
                      !.bonds = @ \ {<<port1, port2>>},
                      !.bond_list[bt0] = SwapRemove(@, A.bond_list_idx[bt0], <<port1, port2>>),
                      !.bond_list_idx[bt0] = IdxRemove(A.bond_list[bt0], @, <<port1, port2>>),
                      !.bond_type[bt0] = @ - 1,
                      !.degree = [@ EXCEPT ![a] = @ - 1, ![b] = @ - 1],
                      !.free_site_list = l2,
                      !.free_site_list_idx = i2,
                      !.free_site = f2,
                      !.agent_self_binding =
                          [bt \in bts |-> A.agent_self_binding[bt]
                                            + SelfBindingTests(bt, ta, ag[a].iface, tb, ag[b].iface)]] >>]

\* internal_reactivity: the number of intra-molecular binding instances of
\* bond type bt that the molecule counts (binding[bt] without the rate constant)
binding_instances(m, bt) ==
    IF bt[1] = bt[2]
    THEN (m.free_site[bt[1]] * (m.free_site[bt[1]] - 1)) \div 2
    ELSE m.free_site[bt[1]] * m.free_site[bt[2]] - m.agent_self_binding[bt]

NoPorts == [err |-> "", bt |-> <<>>, port1 |-> Free, port2 |-> Free, high1 |-> 0, high2 |-> 0]

\* a second draw over the whole list, the first port's own site included
SecondPort_keep_own(m, bt, p1) ==
    LET l2 == m.free_site_list[bt[2]]
    IN  {[err |-> "", bt |-> bt, port1 |-> p1, port2 |-> l2[r2 + 1],
          high1 |-> m.free_site[bt[1]], high2 |-> m.free_site[bt[2]]]
         : r2 \in 0..(m.free_site[bt[2]] - 1)}

\* select_reaction, lines 319-340: the second port, given the first
SecondPort(m, bt, p1) ==
    LET l2     == m.free_site_list[bt[2]]
        fs2    == m.free_site[bt[2]]
        own    == IF bt[1] = bt[2] THEN p1 ELSE <<p1[1], bt[2][2]>>
        filter == bt[1] = bt[2] \/ own \in Range(l2)
        temp   == IF filter THEN SelectSeq(l2, LAMBDA p : p # own) ELSE l2
        high   == IF filter THEN fs2 - 1 ELSE fs2
        out(e, p2) == [err |-> e, bt |-> bt, port1 |-> p1, port2 |-> p2,
                       high1 |-> m.free_site[bt[1]], high2 |-> high]
    IN  IF high <= 0 THEN {out("ValueError: integers(high <= 0)", Free)}
        ELSE {IF r2 + 1 \in DOMAIN temp THEN out("", temp[r2 + 1])
              ELSE out("IndexError: temp_list[r2]", Free) : r2 \in 0..(high - 1)}

\* select_reaction, lines 319-340: the ports of an intra-molecular bond of
\* type bt in m, for every value of the two variates
SelectPorts(m, bt) ==
    LET l1  == m.free_site_list[bt[1]]
        fs1 == m.free_site[bt[1]]
    IN  IF fs1 <= 0
        THEN {[NoPorts EXCEPT !.err = "ValueError: integers(high <= 0)", !.bt = bt]}
        ELSE UNION {IF r1 + 1 \in DOMAIN l1 THEN SecondPort(m, bt, l1[r1 + 1])
                    ELSE {[NoPorts EXCEPT !.err = "IndexError: free_site_list[r1]", !.bt = bt]}
                    : r1 \in 0..(fs1 - 1)}

MolUnchanged == UNCHANGED <<hp, hop, sys, mixture, heap, log>>

\* a molecule as create_atoms or inflow makes it
MolInit ==
    /\ hp = make_tree(EmptyList)
    /\ hop = NoOp
    /\ sys = [canonicalize |-> FALSE]
    /\ \E sig \in Signatures : \E t \in DOMAIN sig.sites :
         mol = KappaMolecule(sig, Atom(sig, t))
    /\ mixture = [complexes |-> EmptyList]
    /\ heap = EmptyList
    /\ sim = NoPorts
    /\ pc = "mol"
    /\ log = <<>>

\* bimolecular_binding of the molecule with an atom: the ports are picked as
\* select_reaction picks them, the atom is copied with its label shifted by
\* label_counter and make_bond grafts it
MolGraft ==
    /\ pc = "mol"
    /\ Cardinality(DOMAIN mol.agents) < MaxMolAgents
    /\ \E bt \in Range(mol.signature.bond_types), swap \in BOOLEAN :
         LET s1 == IF swap THEN bt[2] ELSE bt[1]
             s2 == IF swap THEN bt[1] ELSE bt[2]
             B  == copy_shifted(KappaMolecule(mol.signature, Atom(mol.signature, s2[1])),
                                Cardinality(DOMAIN mol.agents))
         IN  \E r1 \in 1..mol.free_site[s1] :
                 mol' = make_bond(mol, B, mol.free_site_list[s1][r1], B.free_site_list[s2][1])
    /\ sim' = NoPorts
    /\ pc' = "mol"
    /\ MolUnchanged

\* select_reaction in channel ub: the heap bt+ has drawn the molecule, so its
\* binding[bt] is positive
MolSelect ==
    /\ pc = "mol"
    /\ \E bt \in Range(mol.signature.bond_types) :
         /\ binding_instances(mol, bt) > 0
         /\ \E o \in SelectPorts(mol, bt) :
              /\ sim' = o
              /\ pc' = IF o.err = "" THEN "ub" ELSE "crashed"
    /\ mol' = mol
    /\ MolUnchanged

\* unimolecular_binding
MolBind ==
    /\ pc = "ub"
    /\ mol' = make_bond(mol, NoMolecule, sim.port1, sim.port2)
    /\ sim' = sim
    /\ pc' = "mol"
    /\ MolUnchanged

\* bond_dissociation of a bond drawn from the bond list; of two products one
\* is followed
MolDissociate ==
    /\ pc = "mol"
    /\ \E bt \in Range(mol.signature.bond_types) :
         \E r \in 1..mol.bond_type[bt] :
            LET d == dissociate_bond(mol, mol.bond_list[bt][r][1], mol.bond_list[bt][r][2])
            IN  \E k \in 1..d.n : mol' = d.products[k]
    /\ sim' = NoPorts
    /\ pc' = "mol"
    /\ MolUnchanged

MolNext == MolGraft \/ MolSelect \/ MolBind \/ MolDissociate

SpecMol == MolInit /\ [][MolNext]_vars


(***************************************************************************)
(* main_loop of mainloop.py with the monitor (kamon.py) and the alarm      *)
(* (kalarm.py).  The reactive core is reduced to what the loop sees of it: *)
(* advance_time adds a positive waiting time or raises, execute_reaction   *)
(* changes the observed quantity or raises.  Times are integers.  sys is   *)
(* the configuration, sim the simulator's time and event, mol the monitor, *)
(* mixture the observed quantity, log what the run has done so far.        *)
(***************************************************************************)
MaxLimit == 3
MaxPeriod == 2
MaxDt == 2
MaxValue == 2

LoopUnchanged == UNCHANGED <<hp, hop, heap>>

NoIteration == [fired |-> FALSE, broke |-> FALSE, d_event |-> 0, d_reactions |-> 0]

\* a call of monitor.observe, monitor.snapshot or execute_reaction and the
\* value of simulator.time at the call
Call(op, time) == [op |-> op, time |-> time]

\* the simulated time of the most recent call
LastCall == IF log.calls = <<>> THEN log.prev ELSE log.calls[Len(log.calls)].time

\* Observable.check, Alarm.trigger: some alarm's most recent value exceeds
\* its threshold
trigger(monitor) == sys.alarm.set /\ monitor.value > sys.alarm.threshold

\* Monitor.observe: the value is appended, a line is written to the
\* observation file (lines is the parity of their number) and the next
\* observation scheduled
observe(monitor) ==
    [monitor EXCEPT !.value = mixture.observable,
                    !.lines = 1 - @,
                    !.observation_time = @ + sys.obs_period]

\* Monitor.snapshot: the snapshot is written and the next one scheduled
snapshot(monitor) == [monitor EXCEPT !.snap_time = @ + sys.snap_period]

\* the configurations: limit and its type, the periods, one alarm or none,
\* time 0 and event 0 or those inherited from a snapshot file
LoopInit ==
    /\ hp = make_tree(EmptyList)
    /\ hop = NoOp
    /\ heap = EmptyList
    /\ \E type \in {"time", "event"}, limit \in 1..MaxLimit, op \in 0..MaxPeriod,
          sp \in 0..MaxPeriod, set \in BOOLEAN, th \in 0..(MaxValue - 1),
          e0 \in 0..1, v \in 0..MaxValue :
         /\ sys = [sim_limit_type |-> type, sim_limit |-> limit, obs_period |-> op,
                   snap_period |-> sp, alarm |-> [set |-> set, threshold |-> th]]
         /\ sim = [time |-> 0, event |-> e0, event0 |-> e0]
         \* Monitor.initialize
         /\ mol = [observation_time |-> IF type = "time" THEN 0 ELSE e0,
                   snap_time |-> IF sp = 0 THEN limit ELSE IF type = "time" THEN 0 ELSE e0,
                   value |-> 0, lines |-> 0]
         /\ mixture = [observable |-> v]
    /\ log = [reactions |-> 0, tripped |-> FALSE, after_trip |-> 0, final |-> FALSE,
              iteration |-> NoIteration, calls |-> <<>>, prev |-> 0]
    /\ pc = "start"

\* main_loop, lines 78-81: report, first observation, first snapshot
Start ==
    /\ pc = "start"
    /\ mol' = snapshot(observe(mol))
    /\ log' = [log EXCEPT !.calls = <<Call("observe", sim.time), Call("snapshot", sim.time)>>]
    /\ pc' = "loop"
    /\ UNCHANGED <<sys, sim, mixture>>
    /\ LoopUnchanged

\* the end of an iteration that reaches select_reaction and
\* execute_reaction: the reaction is executed, or an exception leaves
\* main_loop
React(monitor, time, fired, calls) ==
    \/ /\ \E v \in 0..MaxValue : mixture' = [observable |-> v]
       /\ sim' = [sim EXCEPT !.time = time, !.event = @ + 1]
       /\ mol' = monitor
       /\ log' = [log EXCEPT !.reactions = @ + 1,
                             !.after_trip = IF log.tripped \/ (fired /\ trigger(monitor))
                                            THEN @ + 1 ELSE @,
                             !.tripped = @ \/ (fired /\ trigger(monitor)),
                             !.iteration = [fired |-> fired, broke |-> FALSE,
                                            d_event |-> 1, d_reactions |-> 1],
                             !.calls = calls \o <<Call("execute_reaction", time)>>,
                             !.prev = LastCall]
       /\ pc' = "loop"
    \/ /\ mixture' = mixture
       /\ sim' = [sim EXCEPT !.time = time, !.event = @ + 1]
       /\ mol' = monitor
       /\ log' = [log EXCEPT !.tripped = @ \/ (fired /\ trigger(monitor)),
                             !.iteration = [fired |-> fired, broke |-> FALSE,
                                            d_event |-> 1, d_reactions |-> 0],
                             !.calls = calls \o <<Call("execute_reaction", time)>>,
                             !.prev = LastCall]
       /\ pc' = "crashed"

\* advance_time raises (the total activity is zero)
AdvanceRaises ==
    /\ pc = "loop"
    /\ sim.event < sys.sim_limit \/ sys.sim_limit_type = "time"
    /\ sys.sim_limit_type = "time" => sim.time < sys.sim_limit
    /\ pc' = "crashed"
    /\ log' = [log EXCEPT !.calls = <<>>, !.prev = LastCall]
    /\ UNCHANGED <<sys, sim, mol, mixture>>
    /\ LoopUnchanged

\* main_loop, lines 92-115: one iteration of the time-limited loop
TimeIteration ==
    /\ pc = "loop"
    /\ sys.sim_limit_type = "time"
    /\ sim.time < sys.sim_limit
    /\ \E dt \in 1..MaxDt :
         LET t1    == sim.time + dt
             obs   == t1 >= mol.observation_time
             t2    == IF obs THEN mol.observation_time ELSE t1
             m1    == IF obs THEN observe(mol) ELSE mol
             snap  == t2 >= m1.snap_time
             t3    == IF snap THEN m1.snap_time ELSE t2
             m2    == IF snap THEN snapshot(m1) ELSE m1
             c1    == IF obs THEN <<Call("observe", t2)>> ELSE <<>>
             c2    == IF snap THEN c1 \o <<Call("snapshot", t3)>> ELSE c1
         IN  IF obs /\ trigger(m1)
             THEN /\ sim' = [sim EXCEPT !.time = t2]
                  /\ mol' = m1
                  /\ log' = [log EXCEPT !.tripped = TRUE,
                                        !.iteration = [fired |-> TRUE, broke |-> TRUE,
                                                       d_event |-> 0, d_reactions |-> 0],
                                        !.calls = c1,
                                        !.prev = LastCall]
                  /\ pc' = "exit"
                  /\ mixture' = mixture
             ELSE IF obs \/ snap
             THEN /\ sim' = [sim EXCEPT !.time = t3]
                  /\ mol' = m2
                  /\ log' = [log EXCEPT !.iteration = [fired |-> TRUE, broke |-> FALSE,
                                                       d_event |-> 0, d_reactions |-> 0],
                                        !.calls = c2,
                                        !.prev = LastCall]
                  /\ pc' = "loop"
                  /\ mixture' = mixture
             ELSE React(m2, t3, FALSE, c2)
    /\ sys' = sys
    /\ LoopUnchanged

\* main_loop, lines 117-125: one iteration of the event-limited loop
EventIteration ==
    /\ pc = "loop"
    /\ sys.sim_limit_type # "time"
    /\ sim.event < sys.sim_limit
    /\ \E dt \in 1..MaxDt :
         LET obs  == sim.event = mol.observation_time
             m1   == IF obs THEN observe(mol) ELSE mol
             snap == sim.event = m1.snap_time
             m2   == IF snap THEN snapshot(m1) ELSE m1
             c1   == IF obs THEN <<Call("observe", sim.time + dt)>> ELSE <<>>
             c2   == IF snap THEN c1 \o <<Call("snapshot", sim.time + dt)>> ELSE c1
         IN  React(m2, sim.time + dt, obs, c2)
    /\ sys' = sys
    /\ LoopUnchanged

\* main_loop, lines 129-134: after the loop, the last snapshot and the reports
Finish ==
    /\ \/ pc = "exit"
       \/ /\ pc = "loop"
          /\ IF sys.sim_limit_type = "time" THEN sim.time >= sys.sim_limit
             ELSE sim.event >= sys.sim_limit
    /\ mol' = snapshot(mol)
    /\ log' = [log EXCEPT !.final = TRUE,
                          !.calls = <<Call("snapshot", sim.time)>>,
                          !.prev = LastCall]
    /\ pc' = "finished"
    /\ UNCHANGED <<sys, sim, mixture>>
    /\ LoopUnchanged

LoopNext == Start \/ AdvanceRaises \/ TimeIteration \/ EventIteration \/ Finish

SpecLoop == LoopInit /\ [][LoopNext]_vars

\* main_loop is a sequential program: it goes on taking steps until it has
\* finished or an exception has left it
SpecLoopFair == LoopInit /\ [][LoopNext]_vars /\ WF_vars(LoopNext)


(***************************************************************************)
(* Two independent runs of the simulator on the same parameter file and    *)
(* the same seed.  sim is the pair of runs.  A run holds the uuid that     *)
(* System.__init__ draws, the state of its random number generator, its    *)
(* time, event and observed quantity, and the files written so far: the    *)
(* lines of the observation file and the snapshots.  The generator is a    *)
(* function of its state alone, so that equal seeds give equal variates.   *)
(***************************************************************************)
MaxSeed == 2

UUIDs == {"uuid-a", "uuid-b"}

\* the generator: its next state, and the variate a state yields
rng_next(state) == (5 * state + 3) % 8

rng_variate(state) == state % 3

\* System.__init__ and the constructors: uuid1() differs from process to
\* process, the generator is seeded from the parameter file
NewRun(seed, uuid) ==
    [uuid |-> uuid, rng |-> seed, time |-> 0, event |-> 0, observable |-> 0,
     csv |-> <<>>, snapshots |-> <<>>, trace |-> <<>>, pc |-> "start"]

\* Mixture.make_snapshot: the header lines with the event, the uuid and the
\* time, then the species
make_snapshot(r) == <<r.event, r.uuid, r.time, r.observable>>

\* Monitor.observe in event-limited mode: a line with the event and the value
observation_line(r) == <<r.event, r.observable>>

\* main_loop, lines 78-81
RunStart(r) ==
    [r EXCEPT !.csv = Append(@, observation_line(r)),
              !.snapshots = Append(@, make_snapshot(r)),
              !.pc = "loop"]

\* main_loop, lines 117-125 with obs_frequency = 1 and no periodic snapshot:
\* the waiting time and the reaction are drawn from the generator
RunIteration(r) ==
    LET s1   == rng_next(r.rng)
        s2   == rng_next(s1)
        t    == r.time + 1 + rng_variate(s1)
        r1   == [r EXCEPT !.time = t]
        seen == IF r.event > 0 THEN Append(r.csv, observation_line(r1)) ELSE r.csv
    IN  [r1 EXCEPT !.csv = seen,
                   !.event = @ + 1,
                   !.observable = (@ + rng_variate(s2)) % 3,
                   !.trace = Append(@, <<t, rng_variate(s2)>>),
                   !.rng = s2]

\* main_loop, lines 129-134
RunFinish(r) == [r EXCEPT !.snapshots = Append(@, make_snapshot(r)), !.pc = "finished"]

RunsInit ==
    /\ hp = make_tree(EmptyList)
    /\ hop = NoOp
    /\ heap = EmptyList
    /\ mol = EmptyList
    /\ mixture = EmptyList
    /\ log = <<>>
    /\ pc = "runs"
    /\ \E seed \in 0..MaxSeed, limit \in 1..MaxLimit :
         sys = [rng_seed |-> seed, sim_limit |-> limit, sim_limit_type |-> "event"]
    /\ \E u1 \in UUIDs, u2 \in UUIDs :
         sim = <<NewRun(sys.rng_seed, u1), NewRun(sys.rng_seed, u2)>>

RunsUnchanged == UNCHANGED <<hp, hop, sys, mol, mixture, heap, pc, log>>

StartRun ==
    /\ \E i \in 1..2 : sim[i].pc = "start" /\ sim' = [sim EXCEPT ![i] = RunStart(@)]
    /\ RunsUnchanged

IterateRun ==
    /\ \E i \in 1..2 :
         /\ sim[i].pc = "loop"
         /\ sim[i].event < sys.sim_limit
         /\ sim' = [sim EXCEPT ![i] = RunIteration(@)]
    /\ RunsUnchanged

FinishRun ==
    /\ \E i \in 1..2 :
         /\ sim[i].pc = "loop"
         /\ sim[i].event >= sys.sim_limit
         /\ sim' = [sim EXCEPT ![i] = RunFinish(@)]
    /\ RunsUnchanged

RunsNext == StartRun \/ IterateRun \/ FinishRun

SpecRuns == RunsInit /\ [][RunsNext]_vars


(***************************************************************************)
(* Loading a configuration: kaparam.Parameters reads the parameter file    *)
(* and builds the signature (kasig.KappaSignature).  A signature is the    *)
(* sequence of its agent declarations, an agent the sequence of its sites, *)
(* a site the sequence of its bond stubs 'site2.agent2$affinity'.  sys is  *)
(* the configuration, sim the outcome of loading it.                       *)
(***************************************************************************)
Affinities == {"def", "w", "s"}

\* Python's order of the strings used as names
NameOrder == <<"A", "B", "x", "y">>

NameRank(n) == CHOOSE k \in DOMAIN NameOrder : NameOrder[k] = n

\* sorted([(agent, site), (agent2, site2)])
SortedPair(p, q) ==
    IF \/ NameRank(p[1]) < NameRank(q[1])
       \/ p[1] = q[1] /\ NameRank(p[2]) <= NameRank(q[2])
    THEN <<p, q>> ELSE <<q, p>>

\* the stubs of a signature in the order in which get_site_and_bond_types
\* visits them
RECURSIVE StubsOfSite(_, _, _)
StubsOfSite(agent, s, k) ==
    IF k <= 0 THEN <<>>
    ELSE Append(StubsOfSite(agent, s, k - 1),
                [agent |-> agent, site |-> s.site, site2 |-> s.bonds[k].site2,
                 agent2 |-> s.bonds[k].agent2, affinity |-> s.bonds[k].affinity])

RECURSIVE StubsOfAgent(_, _)
StubsOfAgent(decl, k) ==
    IF k <= 0 THEN <<>>
    ELSE StubsOfAgent(decl, k - 1)
           \o StubsOfSite(decl.agent, decl.sites[k], Len(decl.sites[k].bonds))

RECURSIVE Stubs(_, _)
Stubs(sig, k) ==
    IF k <= 0 THEN <<>>
    ELSE Stubs(sig, k - 1) \o StubsOfAgent(sig[k], Len(sig[k].sites))

\* sys.exit(arg): without an argument the exit status is 0, with a string the
\* string is printed and the status is 1
sys_exit(given, text) ==
    [pc |-> "exited", status |-> IF given THEN 1 ELSE 0, message |-> text,
     bond_types |-> EmptyDict]

\* get_site_and_bond_types: the bond types with their affinities after the
\* first k stubs, or the exit taken
RECURSIVE get_site_and_bond_types(_, _)
get_site_and_bond_types(stubs, k) ==
    IF k <= 0 THEN [err |-> FALSE, bond_types |-> EmptyDict]
    ELSE LET acc == get_site_and_bond_types(stubs, k - 1)
             st  == stubs[k]
             bnd == SortedPair(<<st.agent, st.site>>, <<st.agent2, st.site2>>)
         IN  IF acc.err THEN acc
             ELSE IF bnd \notin DOMAIN acc.bond_types
             THEN [acc EXCEPT !.bond_types = DictSet(@, bnd, st.affinity)]
             ELSE IF acc.bond_types[bnd] # st.affinity /\ st.affinity # "def"
             THEN [acc EXCEPT !.err = TRUE]
             ELSE IF acc.bond_types[bnd] = "def" /\ st.affinity # "def"
             THEN [acc EXCEPT !.bond_types = DictSet(@, bnd, st.affinity)]
             ELSE acc

\* the site types declared by the signature
DeclaredSites(sig) ==
    UNION {{<<sig[i].agent, sig[i].sites[j].site>> : j \in DOMAIN sig[i].sites} : i \in DOMAIN sig}

\* consistency: every site of a bond type is declared and each of its two
\* sites carries the stub of the other
consistency(sig, types) ==
    LET stubs == Stubs(sig, Len(sig))
        has(p, q) == \E k \in DOMAIN stubs :
                        /\ <<stubs[k].agent, stubs[k].site>> = p
                        /\ <<stubs[k].agent2, stubs[k].site2>> = q
    IN  \A b \in DOMAIN types :
           /\ b[1] \in DeclaredSites(sig) /\ b[2] \in DeclaredSites(sig)
           /\ has(b[1], b[2]) /\ has(b[2], b[1])

\* KappaSignature.__init__
KappaSignature(sig) ==
    LET stubs == Stubs(sig, Len(sig))
        types == get_site_and_bond_types(stubs, Len(stubs))
    IN  IF types.err THEN sys_exit(TRUE, "inconsistent affinity assignment to bond")
        ELSE IF ~consistency(sig, types.bond_types) THEN sys_exit(FALSE, "")
        ELSE [pc |-> "ready", status |-> 0, message |-> "", bond_types |-> types.bond_types]

\* kaparam.Parameters.__init__ with read_parameters
Parameters(config) ==
    IF ~config.file_exists THEN sys_exit(TRUE, "Cannot find parameter file")
    ELSE IF ~config.keyword_known THEN sys_exit(TRUE, "unknown parameter file keyword")
    ELSE KappaSignature(config.signature)

\* a site with one stub of the given affinity, or with none
SiteDecl(site, site2, agent2, affinity) ==
    [site |-> site,
     bonds |-> IF affinity = "none" THEN <<>>
               ELSE << [site2 |-> site2, agent2 |-> agent2, affinity |-> affinity] >>]

\* the configurations: the parameter file exists or not, its %par keyword is
\* known or not, and the signature declares the bond A.x - B.y by a stub on
\* A.x, a stub on B.y, both or none, in either order of the agents; site y
\* of B may be missing
LoadInit ==
    /\ hp = make_tree(EmptyList)
    /\ hop = NoOp
    /\ heap = EmptyList
    /\ mol = EmptyList
    /\ mixture = EmptyList
    /\ log = <<>>
    /\ pc = "load"
    /\ sim = [pc |-> "load", status |-> 0, message |-> "", bond_types |-> EmptyDict]
    /\ \E exists \in BOOLEAN, known \in BOOLEAN, a_first \in BOOLEAN, y_declared \in BOOLEAN,
          a \in Affinities \cup {"none"}, b \in Affinities \cup {"none"} :
         LET declA == [agent |-> "A", sites |-> << SiteDecl("x", "y", "B", a) >>]
             declB == [agent |-> "B",
                       sites |-> IF y_declared THEN << SiteDecl("y", "x", "A", b) >> ELSE <<>>]
         IN  sys = [file_exists |-> exists, keyword_known |-> known,
                    signature |-> IF a_first THEN <<declA, declB>> ELSE <<declB, declA>>]

\* kainit.initialize up to the construction of the parameters
Load ==
    /\ pc = "load"
    /\ sim' = Parameters(sys)
    /\ pc' = sim'.pc
    /\ UNCHANGED <<hp, hop, sys, mol, mixture, heap, log>>

SpecLoad == LoadInit /\ [][Load]_vars


(***************************************************************************)
(* Properties of the mixture and the simulator.  An event boundary is any  *)
(* position of main_loop between two events: no exception has been raised.*)
(***************************************************************************)
AtBoundary == pc \in {"idle", "timed", "selected"}

Species == DOMAIN mixture.complexes

SpeciesMol(i) == mol[mixture.complexes[i]]

\* the sum over the species of F(species, k) * count
SpeciesSum(F(_, _), k) ==
    WeightedSum(mol, mixture.complexes, ListLen(mixture.complexes), F, k)

\* the last event removed a species from the mixture
Removed(m) ==
    \E i \in DOMAIN log :
        log[i].op = "change_count(-1)" /\ log[i].m = m /\ log[i].count = 1

\* the last event merged a product into a species / appended a product
Merged(i) ==
    /\ log[i].op = "update_mixture"
    /\ i < Len(log)
    /\ log[i + 1].op = "change_count(+1)"

Appended(i) ==
    /\ log[i].op = "update_mixture"
    /\ i = Len(log) \/ log[i + 1].op # "change_count(+1)"

\* C1: after initialization and after every executed event, every heap of the
\* families bt+, bt- and st has as many entries as complexes has species, its
\* k-th leaf is the channel weight of complexes[k] times its count, and its
\* root is the sum of weight * count over the species.
C1_HeapLeaves ==
    AtBoundary =>
        \A t \in Families : \A k \in HeapKeys(t) :
            LET h == heap[t][k]
                n == ListLen(mixture.complexes)
            IN  /\ h.n_entries = n
                /\ \A i \in Species :
                      h.tree[h.first_data_item + i] = data_item(SpeciesMol(i), t, k)
                /\ Root(h) = ListSum([i \in Species |-> data_item(SpeciesMol(i), t, k)], n)

\* a bimolecular binding has removed a species and left at least two, one of
\* them with several instances, in heaps that have grown a layer
C1_Witness ==
    /\ pc = "idle"
    /\ sim.current_reaction.choice = "bb"
    /\ Removed(sim.current_reaction.molecule1)
    /\ ListLen(mixture.complexes) >= 2
    /\ \E i \in Species : SpeciesMol(i).count >= 2
    /\ heap["st"]["A.l"].n_leaves >= 4

\* C2: at every event boundary the stratified unimolecular binding and bond
\* dissociation activities and the free-site totals equal the sums over the
\* species and the roots of their heaps; every value select_reaction hands to
\* draw_node for ub, bd and the first bb draw lies in [0, root).
C2_Activities ==
    AtBoundary =>
        /\ \A bt \in BondTypeSet :
              /\ mixture.activity_unimolecular_binding[bt] = SpeciesSum(binding, bt)
              /\ mixture.activity_unimolecular_binding[bt] = Root(heap["bt+"][bt])
              /\ mixture.activity_bond_dissociation[bt] = SpeciesSum(unbinding, bt)
              /\ mixture.activity_bond_dissociation[bt] = Root(heap["bt-"][bt])
        /\ \A st \in HeapSites :
              /\ mixture.total_free_sites[st] = SpeciesSum(free_site, st)
              /\ mixture.total_free_sites[st] = Root(heap["st"][st])
        /\ pc = "timed" =>
              \A rv \in 0..(mixture.total_activity - 1) :
                 \A o \in select_reaction(World, sim.current_reaction, rv) :
                    \A i \in DOMAIN o.w.draws :
                       o.w.draws[i].first =>
                           /\ 0 <= o.w.draws[i].rv
                           /\ o.w.draws[i].rv < o.w.draws[i].root

\* after an event, a variate falls in the bond dissociation band beyond its
\* first unit, and the mixture holds a chain and a dimer of P
C2_Witness ==
    /\ pc = "timed"
    /\ ListLen(mixture.complexes) >= 2
    /\ mixture.activity_bond_dissociation[<<"P.d", "P.d">>] > 0
    /\ mixture.activity_unimolecular_binding[<<"A.l", "A.r">>] > 0
    /\ \E rv \in 0..(mixture.total_activity - 1) :
          \E o \in select_reaction(World, sim.current_reaction, rv) :
             /\ Len(o.w.draws) = 1
             /\ o.w.draws[1].t = "bt-"
             /\ o.w.draws[1].rv > 0

\* the molecule instances of the mixture
Instances == UNION {{<<i, j>> : j \in 1..SpeciesMol(i).count} : i \in Species}

InstanceSites(x, st) == free_site(SpeciesMol(x[1]).canon, st)

\* the unordered pairs {free site of type st1, free site of type st2} that lie
\* on two different molecule instances
PairCount(bt) ==
    IF bt[1] # bt[2]
    THEN LET P == {pr \in Instances \X Instances : pr[1] # pr[2]}
         IN  SumOver([pr \in P |-> InstanceSites(pr[1], bt[1]) * InstanceSites(pr[2], bt[2])], P)
    ELSE LET P == {pr \in SUBSET Instances : Cardinality(pr) = 2}
             one(pr) == CHOOSE x \in pr : TRUE
             other(pr) == CHOOSE y \in pr : y # one(pr)
         IN  SumOver([pr \in P |-> InstanceSites(one(pr), bt[1])
                                      * InstanceSites(other(pr), bt[1])], P)

\* C3: at every event boundary the incrementally maintained
\* activity_bimolecular_binding[bt] equals what bimolecular_reactivity_of_mixture
\* computes from scratch, which is rc_bond_formation_inter times the number of
\* unordered pairs of free sites of the two types on different instances.
C3_BimolecularFromScratch ==
    AtBoundary =>
        \A bt \in BondTypeSet :
            /\ mixture.activity_bimolecular_binding[bt]
                  = bimolecular_reactivity_of_mixture(mol, mixture.complexes)[bt]
            /\ mixture.activity_bimolecular_binding[bt]
                  = rc_bond_formation_inter * PairCount(bt)

\* after a bond dissociation both bond types can form between instances, and
\* a species with free sites of both types of a bond has several instances
C3_Witness ==
    /\ pc = "idle"
    /\ sim.current_reaction.choice = "bd"
    /\ mixture.activity_bimolecular_binding[<<"A.l", "A.r">>] > 0
    /\ mixture.activity_bimolecular_binding[<<"P.d", "P.d">>] > 0
    /\ \E i \in Species : SpeciesMol(i).canon = Chain(1) /\ SpeciesMol(i).count >= 2

\* C7: after any sequence of add_molecular_species and
\* remove_molecular_species, index[complexes[i]] = i for every i,
\* len(index) = len(complexes) = number_of_species, and a removed species is
\* in neither index nor complexes.
C7_IndexBijection ==
    AtBoundary =>
        /\ \A i \in Species :
              /\ mixture.complexes[i] \in DOMAIN mixture.index
              /\ mixture.index[mixture.complexes[i]] = i
        /\ Cardinality(DOMAIN mixture.index) = ListLen(mixture.complexes)
        /\ mixture.number_of_species = ListLen(mixture.complexes)
        /\ \A i \in DOMAIN log :
              Removed(log[i].m) =>
                  /\ log[i].m \notin DOMAIN mixture.index
                  /\ \A k \in Species : mixture.complexes[k] # log[i].m

\* the last event removed both reactants of a bimolecular binding, the first
\* of them not the last of complexes, and appended the product
C7_Witness ==
    /\ pc = "idle"
    /\ sim.current_reaction.choice = "bb"
    /\ Removed(sim.current_reaction.molecule1)
    /\ Removed(sim.current_reaction.molecule2)
    /\ sim.current_reaction.molecule1 # sim.current_reaction.molecule2
    /\ \E i \in DOMAIN log : Appended(i)
    /\ ListLen(mixture.complexes) >= 2

\* C8: with canonicalization enabled, the canonical forms of the species in
\* complexes are pairwise distinct and mixture.canonical maps exactly those
\* forms to exactly those species; a product whose canonical form is present
\* is merged by incrementing that species' count, otherwise it is appended
\* with count 1.
C8_CanonicalDistinct ==
    (AtBoundary /\ sys.canonicalize) =>
        /\ \A i, j \in Species :
              SpeciesMol(i).canon = SpeciesMol(j).canon => i = j
        /\ DOMAIN mixture.canonical = {SpeciesMol(i).canon : i \in Species}
        /\ \A i \in Species :
              mixture.canonical[SpeciesMol(i).canon] = mixture.complexes[i]
        /\ \A i \in Species : SpeciesMol(i).count >= 1
        /\ \A i \in DOMAIN log :
              /\ Merged(i) =>
                    /\ log[i + 1].m # log[i].m
                    /\ log[i + 1].count >= 1
                    /\ \A k \in Species : mixture.complexes[k] # log[i].m
              /\ Appended(i) =>
                    \E k \in Species : mixture.complexes[k] = log[i].m

\* a bond dissociation has split a chain into a part that was merged into its
\* species and a part that was appended
C8_Witness ==
    /\ pc = "idle"
    /\ sys.canonicalize
    /\ sim.current_reaction.choice = "bd"
    /\ \E i \in DOMAIN log : Merged(i)
    /\ \E i \in DOMAIN log : Appended(i)

\* C9: at every event boundary total_activity is the sum of the five channel
\* activities, each of which is the sum of its stratified aggregate.
C9_TotalActivity ==
    AtBoundary =>
        /\ mixture.total_activity
              = mixture.unimolecular_binding_activity + mixture.bond_dissociation_activity
                  + mixture.bimolecular_binding_activity + mixture.total_inflow
                  + mixture.total_outflow
        /\ mixture.unimolecular_binding_activity
              = SumOver(mixture.activity_unimolecular_binding, BondTypeSet)
        /\ mixture.bond_dissociation_activity
              = SumOver(mixture.activity_bond_dissociation, BondTypeSet)
        /\ mixture.bimolecular_binding_activity
              = SumOver(mixture.activity_bimolecular_binding, BondTypeSet)
        /\ mixture.total_inflow
              = SumOver(mixture.activity_inflow, DOMAIN mixture.activity_inflow)
        /\ mixture.total_outflow
              = SumOver(mixture.activity_outflow, DOMAIN mixture.activity_outflow)

\* after an event all five channels are active
C9_Witness ==
    /\ pc = "idle"
    /\ log # <<>>
    /\ mixture.unimolecular_binding_activity > 0
    /\ mixture.bond_dissociation_activity > 0
    /\ mixture.bimolecular_binding_activity > 0
    /\ mixture.total_inflow > 0
    /\ mixture.total_outflow > 0

\* the positions of the log of the last event that hold a call of the reactor
ReactorCalls == {i \in DOMAIN log : log[i].op \in {"react_clone", "react_in_place"}}

\* C10: within every reaction event the steps occur in the order
\* negativeUpdate(reactant), change_count(reactant, -1), the Reactor,
\* positiveUpdate(product), update_overall_activities: the Reactor decides
\* between clone and in place on the reactant's count after its decrement.
C10_StepOrder ==
    (pc = "idle" /\ sim.current_reaction.choice \in {"ub", "bd", "bb"} /\ log # <<>>) =>
        \A r \in ReactorCalls :
            \E i, j, k, l \in DOMAIN log :
                /\ i < j /\ j < r /\ r < k /\ k < l
                /\ log[i].op = "negativeUpdate" /\ log[i].m = log[r].m
                /\ log[j].op = "change_count(-1)" /\ log[j].m = log[r].m
                /\ log[r].count = log[i].count - 1
                /\ log[k].op = "positiveUpdate"
                /\ log[l].op = "update_overall_activities"

\* C11: for ub and bd events the Reactor mutates the species object in place
\* (no clone) when the reactant species has count exactly 1 at the time of the
\* event, and clones it when the count is larger; in the clone case the
\* reactant species keeps its structure.
C11_ClonePolicy ==
    (pc = "idle" /\ sim.current_reaction.choice \in {"ub", "bd"} /\ log # <<>>) =>
        \A r \in ReactorCalls :
            /\ log[1].m = log[r].m
            /\ log[1].count = 1 => log[r].op = "react_in_place"
            /\ log[1].count > 1 => log[r].op = "react_clone"

\* the strata of select_reaction as a list of (channel, key, width), the
\* channels in the order chs; within a channel the flows are in dictionary
\* order and the bond types in the signature's order
StrataOf(ch) ==
    LET mx == mixture
    IN  CASE ch = "inflow" ->
               [i \in 1..Len(KeysOf(mx.activity_inflow)) |->
                  [choice |-> ch, key |-> KeysOf(mx.activity_inflow)[i],
                   width |-> mx.activity_inflow[KeysOf(mx.activity_inflow)[i]]]]
          [] ch = "outflow" ->
               [i \in 1..Len(KeysOf(mx.activity_outflow)) |->
                  [choice |-> ch, key |-> KeysOf(mx.activity_outflow)[i],
                   width |-> mx.activity_outflow[KeysOf(mx.activity_outflow)[i]]]]
          [] ch = "ub" ->
               [i \in 1..Len(bond_types) |->
                  [choice |-> ch, key |-> bond_types[i],
                   width |-> mx.activity_unimolecular_binding[bond_types[i]]]]
          [] ch = "bd" ->
               [i \in 1..Len(bond_types) |->
                  [choice |-> ch, key |-> bond_types[i],
                   width |-> mx.activity_bond_dissociation[bond_types[i]]]]
          [] OTHER ->
               [i \in 1..Len(bond_types) |->
                  [choice |-> ch, key |-> bond_types[i],
                   width |-> mx.activity_bimolecular_binding[bond_types[i]]]]

Layout(chs) ==
    StrataOf(chs[1]) \o StrataOf(chs[2]) \o StrataOf(chs[3]) \o StrataOf(chs[4])
      \o StrataOf(chs[5])

\* the lower end of stratum i of the layout
RECURSIVE Below(_, _)
Below(lay, i) == IF i <= 1 THEN 0 ELSE Below(lay, i - 1) + lay[i - 1].width

\* rv lies in stratum i of the layout chs and select_reaction picks its
\* channel and key
PicksStratum(chs, rv, i) ==
    LET lay == Layout(chs)
    IN  (Below(lay, i) <= rv /\ rv < Below(lay, i) + lay[i].width) =>
            /\ Band(World, rv).choice = lay[i].choice
            /\ Band(World, rv).key = lay[i].key
            /\ lay[i].choice # "bb" => Band(World, rv).rv = rv - Below(lay, i)

FollowsLayout(chs) ==
    pc = "timed" =>
        \A rv \in 0..(mixture.total_activity - 1) :
            \A i \in 1..Len(Layout(chs)) : PicksStratum(chs, rv, i)

\* C12 as stated: select_reaction maps rv in [0, total_activity) to a channel
\* through five contiguous bands in the order ub, bd, bb, inflow, outflow, the
\* strata of a band in the signature's bond-type order.
C12_BandsUbFirst == FollowsLayout(<<"ub", "bd", "bb", "inflow", "outflow">>)

\* C12 (amended): the five contiguous bands are laid out in the order inflow,
\* outflow, ub, bd, bb; rv in a stratum selects that stratum's channel and key,
\* and what is passed on to the heap draw is rv less the stratum's lower end.
C12_BandsFlowFirst == FollowsLayout(<<"inflow", "outflow", "ub", "bd", "bb">>)

\* a variate is about to be mapped while all five channels are active
C12_Witness ==
    /\ pc = "timed"
    /\ mixture.total_inflow > 0 /\ mixture.total_outflow > 0
    /\ mixture.unimolecular_binding_activity > 0
    /\ mixture.bond_dissociation_activity > 0
    /\ mixture.bimolecular_binding_activity > 0

\* C13: when mixture.total_activity is 0 the core does not raise: advance_time,
\* select_reaction and execute_reaction leave main_loop by no exception, and
\* the loop stops cleanly.
C13_ZeroTotalDoesNotRaise ==
    mixture.total_activity = 0 => ~(pc = "crashed" /\ sim.err = "ZeroDivisionError")

\* C14: whenever select_reaction picks channel ub for a molecule m with
\* binding[bt] > 0, bt = (st1, st2), the second draw has a non-empty range and
\* the ports returned are a free site of type st1 and a free site of type st2
\* on a different agent of m, for every signature and every reachable molecule.
C14_PortsOnDifferentAgents ==
    (pc \in {"ub", "crashed"} /\ binding_instances(mol, sim.bt) > 0) =>
        /\ sim.err = ""
        /\ sim.port1 \in Range(mol.free_site_list[sim.bt[1]])
        /\ sim.port2 \in Range(mol.free_site_list[sim.bt[2]])
        /\ sim.port1[1] # sim.port2[1]

\* C15: given that ub is selected for a molecule and an asymmetric bond type
\* (st1, st2), every admissible pair of ports is selected with the same
\* probability 1 / (free_site[st1] * free_site[st2] - agent_self_binding[bt]).
\* A pair is the outcome of exactly one value of (r1, r2), r1 uniform over
\* high1 values and r2 over high2, so its probability is 1 / (high1 * high2).
\* Molecules on which some first port leaves the second draw without
\* candidates (C14) are set aside.
C15_UniformPair ==
    (pc = "ub" /\ sim.bt[1] # sim.bt[2]
       /\ \A o \in SelectPorts(mol, sim.bt) : o.err = "") =>
        sim.high1 * sim.high2 = binding_instances(mol, sim.bt)

C17_OutflowDecrementsMonomer ==
    (sim.current_reaction.choice = "outflow" /\ pc \in {"idle", "crashed"}
       /\ sim.err # "ZeroDivisionError") =>
        /\ pc = "idle"
        /\ \E i \in DOMAIN log : log[i].op = "change_count(-1)" /\ log[i].count >= 1

\* 1 for a free monomer of agent type a, else 0
IsAtom(c, a) == IF size(c) = 1 /\ agent_type(c) = a THEN 1 ELSE 0

\* C18: from initialization on and at every event boundary, total_inflow is
\* the sum of the declared inflow rates, and for every atom type a with a
\* declared outflow rate activity_outflow[a] is defined and equals
\* outflow_rate[a] times the number of free monomers of type a (0 when there
\* is none, the initial mixture included), total_outflow being their sum.
C18_FlowTotals ==
    /\ sim.err # "KeyError: activity_outflow[a]"
    /\ AtBoundary =>
         /\ mixture.total_inflow = SumOver(sys.inflow_rate, DOMAIN sys.inflow_rate)
         /\ \A a \in DOMAIN sys.outflow_rate :
               /\ a \in DOMAIN mixture.activity_outflow
               /\ mixture.activity_outflow[a] = sys.outflow_rate[a] * SpeciesSum(IsAtom, a)
         /\ mixture.total_outflow
               = SumOver(mixture.activity_outflow, DOMAIN sys.outflow_rate)

\* the species of a world: how many entries of complexes have a given
\* canonical form and count
SpeciesBag(w) ==
    LET cx == w.mixture.complexes
    IN  [rec \in {w.mol[cx[i]] : i \in DOMAIN cx} |->
            Cardinality({i \in DOMAIN cx : w.mol[cx[i]] = rec})]

\* the world has the species, aggregates and heap roots of the current state
Restored(w) ==
    /\ SpeciesBag(w) = SpeciesBag(World)
    /\ w.mixture.number_of_species = mixture.number_of_species
    /\ w.mixture.activity_unimolecular_binding = mixture.activity_unimolecular_binding
    /\ w.mixture.activity_bond_dissociation = mixture.activity_bond_dissociation
    /\ w.mixture.activity_bimolecular_binding = mixture.activity_bimolecular_binding
    /\ w.mixture.total_free_sites = mixture.total_free_sites
    /\ \A t \in Families : \A k \in HeapKeys(t) : Root(w.heap[t][k]) = Root(heap[t][k])

\* the bb event selected as o is executed, then the bd event that dissociates
\* the bond it made, in the species that holds the product
BindThenDissociate(o, swap) ==
    LET w1  == execute_reaction(o.w, o.cr, FALSE)
        c   == InterBond(o.w.mol[o.cr.molecule1].canon, o.w.mol[o.cr.molecule2].canon)
        cx  == w1.mixture.complexes
        ids == {cx[i] : i \in DOMAIN cx}
        m   == IF w1.products[1] \in ids THEN w1.products[1]
               ELSE CHOOSE x \in ids : w1.mol[x].canon = c
        cr2 == [NoReaction EXCEPT !.choice = "bd", !.molecule1 = m, !.bt = o.cr.bt,
                                  !.r = size(o.w.mol[o.cr.molecule1].canon) - 1]
    IN  IF w1.err # "" THEN w1
        ELSE execute_reaction([w1 EXCEPT !.log = <<>>, !.products = <<>>], cr2, swap)

\* the bb events that select_reaction can pick in the current state
BindingEvents ==
    UNION {Resolve(World, sim.current_reaction, b) :
             b \in {x \in {Band(World, rv) : rv \in 0..(mixture.total_activity - 1)} :
                      x.choice = "bb"}}

SameInventory(x, y) ==
    /\ x.agents = y.agents
    /\ x.free_site = y.free_site
    /\ x.bond_type = y.bond_type
    /\ x.agent_self_binding = y.agent_self_binding
    /\ \A st \in DOMAIN y.free_site_list :
          Range(x.free_site_list[st]) = Range(y.free_site_list[st])
    /\ \A bt \in DOMAIN y.bond_list : Range(x.bond_list[bt]) = Range(y.bond_list[bt])

\* make_bond between the free ports p1 and p2, then dissociate_bond of the
\* bond made
BondThenDissociate(m, bt, p1, p2) ==
    LET m1 == make_bond(m, NoMolecule, p1, p2)
        b  == m1.bond_list[bt][Len(m1.bond_list[bt])]
    IN  dissociate_bond(m1, b[1], b[2])

\* C20: for any molecule and any pair of free ports on different agents
\* allowed by the signature, make_bond (intra-molecular) followed by
\* dissociate_bond of that bond restores free_site, bond_type,
\* agent_self_binding, the contents of the free-site and bond lists and the
\* graph; dissociating a non-bridge bond, then re-forming it, does likewise.
C20_BondCycleRestores ==
    pc = "mol" =>
        \A bt \in Range(mol.signature.bond_types) :
            /\ \A p1 \in Range(mol.free_site_list[bt[1]]) :
                  \A p2 \in Range(mol.free_site_list[bt[2]]) :
                      p1[1] # p2[1] =>
                          LET d == BondThenDissociate(mol, bt, p1, p2)
                          IN  d.n = 1 /\ SameInventory(d.products[1], mol)
            /\ \A b \in Range(mol.bond_list[bt]) :
                  LET d == dissociate_bond(mol, b[1], b[2])
                  IN  d.n = 1 =>
                          SameInventory(make_bond(d.products[1], NoMolecule, b[1], b[2]), mol)

\* the bonds of a molecule, from its bond lists
Bonds(m) == UNION {Range(m.bond_list[bt]) : bt \in DOMAIN m.bond_list}

\* the agents of S are connected by the bonds of E: every split of S in two
\* is crossed by a bond
Connected(S, E) ==
    /\ S # {}
    /\ \A T \in (SUBSET S) \ {{}, S} :
          \E e \in E : /\ {e[1][1], e[2][1]} \subseteq S
                       /\ (e[1][1] \in T) # (e[2][1] \in T)

\* C21: dissociate_bond returns one molecule exactly when the graph is still
\* connected after the bond is removed; otherwise it returns two molecules
\* whose agent sets are non-empty, disjoint, cover the agents of the
\* dissociated molecule, are each connected, and hold the two former
\* endpoints in different molecules; when a second bond links the same two
\* agents they stay adjacent and no fission is reported.
C21_FissionIffDisconnected ==
    pc = "mol" =>
        \A b \in Bonds(mol) :
            LET d    == dissociate_bond(mol, b[1], b[2])
                E    == Bonds(mol) \ {b}
                All  == DOMAIN mol.agents
                ends == {b[1][1], b[2][1]}
            IN  /\ d.n \in {1, 2}
                /\ d.n = 1 <=> Connected(All, E)
                /\ d.n = 2 =>
                      /\ Len(d.products) = 2 /\ Len(d.parts) = 2
                      /\ d.parts[1] # {} /\ d.parts[2] # {}
                      /\ d.parts[1] \cap d.parts[2] = {}
                      /\ d.parts[1] \cup d.parts[2] = All
                      /\ \A k \in 1..2 :
                            /\ Connected(d.parts[k], E)
                            /\ Cardinality(ends \cap d.parts[k]) = 1
                            /\ Cardinality(DOMAIN d.products[k].agents)
                                  = Cardinality(d.parts[k])
                /\ (\E e \in E : {e[1][1], e[2][1]} = ends) =>
                      /\ d.n = 1
                      /\ \E s \in DOMAIN d.products[1].agents[b[1][1]].iface :
                            d.products[1].agents[b[1][1]].iface[s][1] = b[2][1]

\* a molecule with a bridge bond and with two agents linked twice
C21_Witness ==
    /\ pc = "mol"
    /\ \E b \in Bonds(mol) : dissociate_bond(mol, b[1], b[2]).n = 2
    /\ \E b \in Bonds(mol) :
          /\ dissociate_bond(mol, b[1], b[2]).n = 1
          /\ \E e \in Bonds(mol) \ {b} : {e[1][1], e[2][1]} = {b[1][1], b[2][1]}

\* the list l of length n has no duplicates and idx maps each entry to its
\* position, so that the positions are distinct and cover [0, n)
InLockstep(l, idx, n) ==
    /\ Len(l) = n
    /\ Cardinality(Range(l)) = n
    /\ DOMAIN idx = Range(l)
    /\ \A k \in 1..Len(l) : idx[l[k]] = k - 1

C24_AlarmStopsRun ==
    log.tripped => /\ log.after_trip = 0
                   /\ pc \in {"exit", "finished", "crashed"}
                   /\ pc = "finished" => log.final

\* C25: at every point of a run simulator.event minus its initial value is
\* the number of reactions executed: in time-limited mode an iteration in
\* which a scheduled observation or snapshot fires executes no reaction and
\* leaves event unchanged, every other iteration increments event by exactly
\* 1 and executes exactly one reaction; in event-limited mode the loop ends
\* exactly when event reaches sim_limit.
C25_EventCountsReactions ==
    /\ sim.event - sim.event0 = log.reactions
    /\ (sys.sim_limit_type = "time" /\ log.iteration.fired) =>
          log.iteration.d_event = 0 /\ log.iteration.d_reactions = 0
    /\ (pc # "start" /\ log.iteration # NoIteration
          /\ ~(sys.sim_limit_type = "time" /\ log.iteration.fired)) =>
          log.iteration.d_event = 1 /\ log.iteration.d_reactions = 1
    /\ (sys.sim_limit_type # "time" /\ pc = "finished") =>
          /\ sim.event >= sys.sim_limit
          /\ sim.event0 <= sys.sim_limit => sim.event = sys.sim_limit

\* C26: two independent runs with the same seed and the same parameter file
\* select and execute the same reactions at the same simulated times and
\* write byte-identical observation files and byte-identical snapshot files.
C26_SameSeedSameFiles ==
    (sim[1].pc = "finished" /\ sim[2].pc = "finished") =>
        /\ sim[1].trace = sim[2].trace
        /\ sim[1].csv = sim[2].csv
        /\ sim[1].snapshots = sim[2].snapshots

\* the configuration has an error that loading detects
ConfigError ==
    LET stubs == Stubs(sys.signature, Len(sys.signature))
        types == get_site_and_bond_types(stubs, Len(stubs))
    IN  \/ ~sys.file_exists
        \/ ~sys.keyword_known
        \/ types.err
        \/ ~consistency(sys.signature, types.bond_types)

\* C27: every configuration error detected at load (an inconsistent
\* signature, an unknown %par keyword, a missing parameter file) terminates
\* the process before the simulation starts, with a non-zero exit status.
C27_ConfigErrorExitsNonZero ==
    (pc # "load" /\ ConfigError) => pc = "exited" /\ sim.status # 0

\* C28: the affinity coherence check does not depend on the declaration
\* order: a bond type declared by two stubs with affinities a and b is
\* accepted exactly when a = b or one of them is the default, the resulting
\* affinity being the non-default one whichever stub comes first; two
\* different non-default affinities are rejected.
C28_AffinityOrderIndependent ==
    LET stubs == Stubs(sys.signature, Len(sys.signature))
        a     == stubs[1].affinity
        b     == stubs[2].affinity
        bnd   == << <<"A", "x">>, <<"B", "y">> >>
    IN  (pc # "load" /\ sys.file_exists /\ sys.keyword_known /\ Len(stubs) = 2) =>
            IF a = b \/ a = "def" \/ b = "def"
            THEN /\ pc = "ready"
                 /\ sim.bond_types[bnd] = IF a # "def" THEN a ELSE b
            ELSE /\ pc = "exited"
                 /\ sim.message = "inconsistent affinity assignment to bond"

AmountAt(i, bt, cnt) ==
    BimolecularAmount(mol[mixture.complexes[i]].canon, cnt, mixture.total_free_sites, bt)

\* C30 as stated: for a species m and a bond type bt the bimolecular amount
\* that negativeUpdate subtracts (and positiveUpdate adds) differs when it is
\* evaluated with m.count = c and with m.count = c - 1, all other mixture
\* state being equal.
C30_AmountDependsOnCount ==
    \A i \in DOMAIN mixture.complexes : \A bt \in BondTypeSet :
        AmountAt(i, bt, mol[mixture.complexes[i]].count)
            # AmountAt(i, bt, mol[mixture.complexes[i]].count - 1)

\* C30 amended: for every species m of the mixture and every bond type bt
\* the bimolecular amount is the same at every count, the free-site totals
\* being equal: the terms in m.count cancel, and the amount is
\* free_site[st1] * (total_free_sites[st2] - free_site[st2]), plus the
\* symmetric term when st1 # st2.
C30_AmountIndependentOfCount ==
    \A i \in DOMAIN mixture.complexes : \A bt \in BondTypeSet :
        LET c == mol[mixture.complexes[i]].canon
            closed == free_site(c, bt[1]) * (mixture.total_free_sites[bt[2]] - free_site(c, bt[2]))
                      + IF bt[1] # bt[2]
                        THEN free_site(c, bt[2])
                               * (mixture.total_free_sites[bt[1]] - free_site(c, bt[1]))
                        ELSE 0
        IN  \A cnt \in 0..(mol[mixture.complexes[i]].count + 1) :
                AmountAt(i, bt, cnt) = closed

\* an event has just applied negativeUpdate to a species of count at least 2
\* that is still in the mixture with a nonzero bimolecular amount
C30_Witness ==
    /\ pc = "idle"
    /\ \E k \in DOMAIN log : \E i \in DOMAIN mixture.complexes : \E bt \in BondTypeSet :
         /\ log[k].op = "negativeUpdate"
         /\ log[k].count >= 2
         /\ log[k].m = mixture.complexes[i]
         /\ AmountAt(i, bt, log[k].count) # 0

\* C32: select_reaction has no net effect on the mixture: when it returns,
\* for any channel and in particular for bb with its temporary
\* change_count(m1, -1, remove=False) and change_count(m1, 1), every species
\* count, complexes, index, all activities and every node of every heap are
\* what they were before the call, and m1 is still in the mixture.
C32_SelectNoNetEffect ==
    [][(pc = "timed" /\ pc' = "selected") =>
          /\ mol' = mol
          /\ mixture' = mixture
          /\ heap' = heap
          /\ sim'.current_reaction.choice = "bb" =>
                sim'.current_reaction.molecule1 \in DOMAIN mixture'.index]_vars

\* select_reaction has returned a bb reaction whose first reactant has count
\* 1: its count was 0 during the second draw
C32_Witness ==
    /\ pc = "selected"
    /\ sim.current_reaction.choice = "bb"
    /\ mol[sim.current_reaction.molecule1].count = 1
    /\ sim.current_reaction.molecule1 \in DOMAIN mixture.index

(***************************************************************************)
(* The bb branch of kasim.CTMC.select_reaction over mixtures of any        *)
(* signature, step by step.  A species is its free-site inventory (the     *)
(* free_site dictionary of a KappaMolecule) and its count; heap holds the  *)
(* 'st' heaps, mixture the free-site totals and the bimolecular            *)
(* activities, sim the local variables of select_reaction.                 *)
(***************************************************************************)
MaxSpecies == 2

\* the molecules of a signature with one agent, with two agents joined by
\* one bond, and with two agents joined by two bonds
Monomers(sig) == {KappaMolecule(sig, Atom(sig, t)) : t \in DOMAIN sig.sites}

Dimers(sig) ==
    {make_bond(KappaMolecule(sig, Atom(sig, bt[1][1])),
               copy_shifted(KappaMolecule(sig, Atom(sig, bt[2][1])), 1),
               <<1, bt[1][2]>>, <<2, bt[2][2]>>) : bt \in Range(sig.bond_types)}

PortPairs(D, bt) ==
    {pq \in Range(D.free_site_list[bt[1]]) \X Range(D.free_site_list[bt[2]]) :
        pq[1][1] # pq[2][1]}

DoubleDimers(sig) ==
    UNION {{make_bond(D, NoMolecule, pq[1], pq[2]) : pq \in PortPairs(D, bt)} :
              D \in Dimers(sig), bt \in Range(sig.bond_types)}

Inventories(sig) ==
    {m.free_site : m \in Monomers(sig) \cup Dimers(sig) \cup DoubleDimers(sig)}

\* the site types that occur in a bond type (CTMC.initialize_heaps)
SitesOf(sig) == UNION {{bt[1], bt[2]} : bt \in Range(sig.bond_types)}

\* Mixture.bimolecular_reactivity_of_mixture: the free-site totals
TotalFreeSites(sig, species) ==
    [st \in SiteTypesOf(sig) |->
        ListSum([i \in DOMAIN species |-> species[i].free_site[st] * species[i].count],
                ListLen(species))]

\* Mixture.bimolecular_reactivity_of_mixture: the activity of a bond type,
\* without the rate constant and the symmetry factor
ActivityOf(species, tfs, bt) ==
    ListSum([i \in DOMAIN species |->
               LET m == species[i]
               IN  m.free_site[bt[1]] * m.free_site[bt[2]] * (m.count - 1) * m.count
                     + m.free_site[bt[1]] * m.count
                         * (tfs[bt[2]] - m.free_site[bt[2]] * m.count)],
            ListLen(species))

\* CTMC.initialize_heaps: the 'st' heaps
SiteHeaps(sig, species) ==
    [st \in SitesOf(sig) |->
        make_tree([i \in DOMAIN species |-> species[i].free_site[st] * species[i].count])]

\* Mixture.change_count(m, num, remove=False), and change_count(m, 1) of a
\* species that is in the mixture: the 'st' heaps are modified at index[m]
ChangeCountKept(species, heaps, m, num) ==
    LET c == species[m].count + num
    IN  [species |-> [species EXCEPT ![m].count = c],
         heaps |-> [st \in DOMAIN heaps |->
                      modify(heaps[st], species[m].free_site[st] * c, m)]]

NoDraw == [bt |-> <<>>, r1 |-> 0, m1 |-> -1, r2 |-> 0, m2 |-> -1, err |-> ""]

BBUnchanged == UNCHANGED <<hp, hop, sys, log>>

BBInit ==
    /\ hp = make_tree(EmptyList)
    /\ hop = NoOp
    /\ log = <<>>
    /\ pc = "bb"
    /\ sim = NoDraw
    /\ \E sig \in Signatures :
         /\ sys = [signature |-> sig]
         /\ \E n \in 1..MaxSpecies :
              \E inv \in [0..(n - 1) -> Inventories(sig)], cnt \in [0..(n - 1) -> 1..MaxCount] :
                 /\ mol = [i \in 0..(n - 1) |-> [free_site |-> inv[i], count |-> cnt[i]]]
                 /\ heap = SiteHeaps(sig, mol)
                 /\ mixture =
                      [total_free_sites |-> TotalFreeSites(sig, mol),
                       activity_bimolecular_binding |->
                          [bt \in Range(sig.bond_types) |->
                             ActivityOf(mol, TotalFreeSites(sig, mol), bt)]]

\* lines 364-371: the band of a bond type with positive activity, the first
\* heap draw and the variate of the second
FirstDraw ==
    /\ pc = "bb"
    /\ \E bt \in Range(sys.signature.bond_types) :
         /\ mixture.activity_bimolecular_binding[bt] > 0
         /\ \E r1 \in 0..(mixture.total_free_sites[bt[1]] - 1) :
              LET m1   == draw_node(heap[bt[1]], r1)
                  high == mixture.total_free_sites[bt[2]] - mol[m1].free_site[bt[2]]
              IN  IF high <= 0
                  THEN /\ sim' = [NoDraw EXCEPT !.bt = bt, !.r1 = r1, !.m1 = m1,
                                                !.err = "ValueError: integers(high <= 0)"]
                       /\ pc' = "crashed"
                  ELSE /\ \E r2 \in 0..(high - 1) :
                            sim' = [NoDraw EXCEPT !.bt = bt, !.r1 = r1, !.m1 = m1, !.r2 = r2]
                       /\ pc' = "drawn"
    /\ UNCHANGED <<mol, mixture, heap>>
    /\ BBUnchanged

\* line 372: change_count(m1, -1, remove=False)
TemporaryDecrement ==
    /\ pc = "drawn"
    /\ LET o == ChangeCountKept(mol, heap, sim.m1, -1)
       IN  mol' = o.species /\ heap' = o.heaps
    /\ pc' = "decremented"
    /\ UNCHANGED <<mixture, sim>>
    /\ BBUnchanged

\* lines 373-374: the second heap draw, and change_count(m1, 1)
SecondDraw ==
    /\ pc = "decremented"
    /\ LET i2 == draw_node(heap[sim.bt[2]], sim.r2)
           o  == ChangeCountKept(mol, heap, sim.m1, 1)
       IN  IF i2 \notin DOMAIN mol
           THEN /\ sim' = [sim EXCEPT !.err = "IndexError: complexes[draw_node]"]
                /\ pc' = "crashed"
                /\ UNCHANGED <<mol, heap>>
           ELSE /\ sim' = [sim EXCEPT !.m2 = i2]
                /\ mol' = o.species
                /\ heap' = o.heaps
                /\ pc' = "undone"
    /\ UNCHANGED mixture
    /\ BBUnchanged

\* lines 375-380: the ports of the two molecules
PickPorts ==
    /\ pc = "undone"
    /\ IF mol[sim.m1].free_site[sim.bt[1]] <= 0 \/ mol[sim.m2].free_site[sim.bt[2]] <= 0
       THEN /\ sim' = [sim EXCEPT !.err = "ValueError: integers(high <= 0)"]
            /\ pc' = "crashed"
       ELSE /\ sim' = sim
            /\ pc' = "returned"
    /\ UNCHANGED <<mol, mixture, heap>>
    /\ BBUnchanged

BBNext == FirstDraw \/ TemporaryDecrement \/ SecondDraw \/ PickPorts

SpecBB == BBInit /\ [][BBNext]_vars

\* C31: whenever select_reaction picks channel bb for a bond type (st1, st2)
\* with positive activity, then for every species m1 the first draw can
\* return, the second draw's range total_free_sites[st2] - m1.free_site[st2]
\* is at least 1, the value drawn is below the root of the st2 heap after
\* m1's temporary decrement, and the returned m2 stands for an instance other
\* than the m1 instance (the same species only if m1.count >= 2) and has a
\* free site of type st2.
C31_SecondDrawOverOthers ==
    /\ pc # "crashed"
    /\ pc = "decremented" =>
          /\ 0 <= sim.r2
          /\ sim.r2 < Root(heap[sim.bt[2]])
    /\ pc \in {"undone", "returned"} =>
          /\ mol[sim.m2].free_site[sim.bt[2]] >= 1
          /\ sim.m2 = sim.m1 => mol[sim.m1].count >= 2

\* the agents of a molecule that carry both a free site of type bt[1] and a
\* free site of type bt[2], counted from the interfaces
SelfBindingAgents(m, bt) ==
    {a \in DOMAIN m.agents :
        /\ m.agents[a].type = bt[1][1]
        /\ m.agents[a].type = bt[2][1]
        /\ m.agents[a].iface[bt[1][2]] = Free
        /\ m.agents[a].iface[bt[2][2]] = Free}

\* C33: after any sequence of make_bond and non-fission dissociate_bond on a
\* molecule, agent_self_binding[bt] of every asymmetric bond type equals the
\* number of agents that carry both a free site of type st1 and a free site
\* of type st2; it is never negative and stays 0 when st1 and st2 belong to
\* different agent types, for every signature.
C33_SelfBindingFromInterfaces ==
    pc \in {"mol", "ub"} =>
        \A bt \in Range(mol.signature.bond_types) :
            bt[1] # bt[2] =>
                /\ mol.agent_self_binding[bt] = Cardinality(SelfBindingAgents(mol, bt))
                /\ mol.agent_self_binding[bt] >= 0
                /\ bt[1][1] # bt[2][1] => mol.agent_self_binding[bt] = 0

\* C34: at every event boundary every species in complexes has count >= 1; a
\* species whose count reaches 0 through change_count is, within the same
\* event, no longer in complexes, index, the canonical map or any heap; no
\* event drives a count below 0, a bimolecular binding of two instances of
\* the same species included.
C34_CountsPositive ==
    /\ \A i \in DOMAIN log :
          log[i].op = "change_count(-1)" => log[i].count >= 1
    /\ AtBoundary =>
          /\ \A i \in Species : SpeciesMol(i).count >= 1
          /\ \A i \in DOMAIN log :
                (log[i].op = "change_count(-1)" /\ log[i].count = 1) =>
                    /\ \A k \in Species : mixture.complexes[k] # log[i].m
                    /\ log[i].m \notin DOMAIN mixture.index
                    /\ \A c \in DOMAIN mixture.canonical :
                          mixture.canonical[c] # log[i].m
          /\ \A t \in Families : \A k \in HeapKeys(t) :
                heap[t][k].n_entries = ListLen(mixture.complexes)

\* C35: the total number of agents in the mixture, the sum over the species
\* of size * count, is unchanged by every ub, bd and bb event, increases by
\* exactly 1 on an inflow event and decreases by exactly 1 on an outflow
\* event (the outflow event completes).
C35_AgentsConserved ==
    [][pc = "selected" =>
          LET before == NumAgents(mol, mixture.complexes, ListLen(mixture.complexes))
              after  == NumAgents(mol', mixture'.complexes, ListLen(mixture'.complexes))
              choice == sim.current_reaction.choice
          IN  /\ (pc' = "idle" /\ choice \in {"ub", "bd", "bb"}) => after = before
              /\ (pc' = "idle" /\ choice = "inflow") => after = before + 1
              /\ choice = "outflow" => (pc' = "idle" /\ after = before - 1)]_vars

\* the simulated times of the calls of the last step, after the time of the
\* call before them
CallTimes == <<log.prev>> \o [i \in DOMAIN log.calls |-> log.calls[i].time]

\* C36: in time-limited mode the values of simulator.time at successive calls
\* of monitor.observe(), monitor.snapshot() and execute_reaction() never
\* decrease, for all obs_period and snap_period and all waiting times.
C36_TimeMonotone ==
    sys.sim_limit_type = "time" =>
        \A i \in 1..(Len(CallTimes) - 1) : CallTimes[i] <= CallTimes[i + 1]

\* C37: in time-limited mode the main loop terminates: unless an exception
\* leaves it (the total activity is zero, a reaction raises), simulated time
\* eventually reaches sim_limit and the loop exits, for every obs_period >= 0
\* and snap_period >= 0, the defaults obs_period = 0 and snap_period = 0
\* included.
C37_TimeLoopTerminates ==
    sys.sim_limit_type = "time" => <>(pc \in {"finished", "crashed"})

\* C38: from initialization on and at every event boundary total_bond_type[bt]
\* equals the number of bonds of type bt in the mixture, the sum over the
\* species of bond_type[bt] * count, for every initial mixture, one read from a
\* snapshot in which a bonded species has count > 1 included.
C38_BondTotals ==
    AtBoundary =>
        \A bt \in BondTypeSet :
            mixture.total_bond_type[bt] = SpeciesSum(bond_type, bt)

\* C39: when some atom type has a declared outflow rate, negativeUpdate and
\* positiveUpdate applied to a monomer whose own atom type has none complete
\* normally and leave activity_outflow and total_outflow unchanged: an event
\* that consumes or produces only such monomers (the binding of two monomers
\* P, the fission of the dimer P-P) completes with both unchanged.
C39_UndeclaredMonomerUpdates ==
    [][(/\ pc = "selected"
        /\ DOMAIN sys.outflow_rate # {}
        /\ "P" \notin DOMAIN sys.outflow_rate
        /\ sim.current_reaction.choice \in {"bb", "bd"}
        /\ sim.current_reaction.bt = <<"P.d", "P.d">>) =>
           /\ pc' = "idle"
           /\ mixture'.activity_outflow = mixture.activity_outflow
           /\ mixture'.total_outflow = mixture.total_outflow]_vars

(***************************************************************************)
(* Properties of the heap.                                                 *)
(***************************************************************************)

\* C4: under any sequence of insert, delete and modify, from any initial data
\* list (the empty one included), every internal node holds the sum of its two
\* children and every leaf slot at an offset >= n_entries holds 0.
C4_HeapSums ==
    /\ \A i \in 0..(hp.n_internal_nodes - 1) :
          hp.tree[i] = hp.tree[2 * i + 1] + hp.tree[2 * i + 2]
    /\ \A k \in hp.n_entries..(hp.n_leaves - 1) :
          hp.tree[hp.first_data_item + k] = 0
    /\ ListLen(hp.tree) = hp.n_internal_nodes + hp.n_leaves

\* an insert into a full tree of four leaves has added a layer, and a delete
\* of a non-last leaf has followed on a non-trivial heap
C4_Witness ==
    /\ hop.name = "delete"
    /\ hop.pre.n_leaves = 8
    /\ hop.pre.n_entries = 5
    /\ hop.i = 1
    /\ Root(hp) > 0

\* C5: for root > 0 and 0 <= rv < root, draw_node(rv) is the unique leaf
\* offset i in [0, n_entries) with prefix(i) <= rv < prefix(i+1); the leaf has
\* positive weight.
C5_DrawCorrect ==
    hop.name = "draw" =>
        /\ hop.out \in 0..(hp.n_entries - 1)
        /\ hp.tree[hp.first_data_item + hop.out] > 0
        /\ \A k \in 0..(hp.n_entries - 1) :
              (LeafPrefix(hp, k) <= hop.w /\ hop.w < LeafPrefix(hp, k + 1))
                 <=> (k = hop.out)

\* a draw that passes a zero-weight leaf, in a tree with unoccupied slots
C5_Witness ==
    /\ hop.name = "draw"
    /\ hop.out = 2
    /\ hp.tree[hp.first_data_item + 1] = 0
    /\ hp.tree[hp.first_data_item] > 0
    /\ hp.n_entries = 3
    /\ hp.n_leaves = 4
    /\ hop.w = LeafPrefix(hp, 2)

=============================================================================
